---- MODULE Spec2Model ----
(***************************************************************************)
(* A model of valyrianctx's rule-file synchronisation engine               *)
(* (src/src/core/agent-rules.ts) and of its session extraction pipeline    *)
(* (extractFromEditorSessions).                                            *)
(*                                                                         *)
(* Text files are sequences of tokens.  A token is one of                  *)
(*   "nl"            a newline character                                   *)
(*   "sp"            a blank (JS whitespace other than newline)            *)
(*   "a"             a non-blank character of user text                    *)
(*   IStart, IEnd    the instruction markers  <!-- valyrianctx:start/end -->*)
(*   CStart, CEnd    the context markers <!-- valyrianctx:context:... -->  *)
(*   "G:<id>"        the generated rule body of target <id> (a non-blank   *)
(*                   block that starts and ends with a non-blank character)*)
(*   "H1","H2","H3"  the three fixed header lines of the context section   *)
(*   "x","y"         non-blank summary text                                *)
(*   "$&","$$",...   the two-character replacement patterns of             *)
(*                   String.prototype.replace                              *)
(***************************************************************************)
EXTENDS Integers, Sequences, FiniteSets, TLC

\* ------------------------------------------------------------------ bounds
\* longest run of user text drawn for the initial content of a shared file
MaxUser == 2
\* longest run of user text before, between and after the markers of a span
\* that the initial content of a shared file already holds
MaxAround == 1
\* longest file an inject may produce (nested "$&" expansions grow a file)
MaxFileLen == 34

\* the longest message given to extractDecisions, in pieces
MaxMessageLen == 5

\* the most lines of a session transcript
MaxTranscript == 4

\* the most lines of a file read by readLastLines and the largest maxLines
MaxFileLines == 12
MaxWindow == 4

\* the most lines of a task.md and the most bullets of a plan
MaxTaskLines == 3
MaxBullets == 2

\* extractState truncates to this many characters
StateLimit == 300

\* ------------------------------------------------------------------ tokens
NL == "nl"
SP == "sp"
IStart == "<!-- valyrianctx:start -->"
IEnd == "<!-- valyrianctx:end -->"
CStart == "<!-- valyrianctx:context:start -->"
CEnd == "<!-- valyrianctx:context:end -->"

IsSpace(t) == t \in {NL, SP}

\* ------------------------------------------------------- string primitives
\* String.prototype.includes for a one-token needle
Includes(s, tok) == \E i \in 1..Len(s) : s[i] = tok

\* number of occurrences of a token
Count(s, tok) == Cardinality({i \in 1..Len(s) : s[i] = tok})

\* index of the first occurrence of tok at or after from, 0 when there is none
FirstIdx(s, tok, from) ==
    LET I == {i \in from..Len(s) : s[i] = tok}
    IN IF I = {} THEN 0 ELSE CHOOSE i \in I : \A k \in I : i <= k

EndsWithNL(s) == Len(s) > 0 /\ s[Len(s)] = NL

\* String.prototype.trimEnd
RECURSIVE TrimEnd(_)
TrimEnd(s) ==
    IF Len(s) > 0 /\ IsSpace(s[Len(s)]) THEN TrimEnd(SubSeq(s, 1, Len(s) - 1)) ELSE s

RECURSIVE TrimStart(_)
TrimStart(s) ==
    IF Len(s) > 0 /\ IsSpace(s[1]) THEN TrimStart(Tail(s)) ELSE s

\* String.prototype.trim
Trim(s) == TrimStart(TrimEnd(s))

\* The special replacement patterns of String.prototype.replace: in the
\* replacement string "$&" stands for the matched text, "$`" for the text
\* before the match, "$'" for the text after it and "$$" for one "$".
RECURSIVE ExpandReplacement(_, _, _, _)
ExpandReplacement(repl, matched, before, after) ==
    IF repl = <<>> THEN <<>>
    ELSE LET t == Head(repl)
             r == ExpandReplacement(Tail(repl), matched, before, after)
         IN CASE t = "$&" -> matched \o r
              [] t = "$`" -> before \o r
              [] t = "$'" -> after \o r
              [] t = "$$" -> <<"$">> \o r
              [] OTHER -> <<t>> \o r

\* Where a match of  lead + start + [\s\S]*? + end  begins, when the start
\* marker is at index i and the search may not begin before pos:
\*   lead = "none"  no prefix
\*   lead = "opt"   \n?   one newline right before the marker, when there is one
\*   lead = "many"  \n*   every newline right before the marker
RECURSIVE LeadStart(_, _, _, _)
LeadStart(s, pos, i, lead) ==
    IF lead = "none" \/ i <= pos \/ s[i - 1] # NL THEN i
    ELSE IF lead = "opt" THEN i - 1
    ELSE LeadStart(s, pos, i - 1, lead)

\* s.replace(new RegExp(lead + start + "[\\s\\S]*?" + end + trail, "g"), repl)
\* from position pos on: every leftmost non-overlapping span, from a start
\* marker through the first end marker after it, is replaced.
RECURSIVE ReplaceFrom(_, _, _, _, _, _, _)
ReplaceFrom(s, pos, start, end, lead, trail, repl) ==
    LET i == FirstIdx(s, start, pos)
        j == IF i = 0 THEN 0 ELSE FirstIdx(s, end, i + 1)
    IN IF j = 0 THEN SubSeq(s, pos, Len(s))
       ELSE LET b == LeadStart(s, pos, i, lead)
                e == IF trail /\ j < Len(s) /\ s[j + 1] = NL THEN j + 1 ELSE j
            IN SubSeq(s, pos, b - 1)
               \o ExpandReplacement(repl, SubSeq(s, b, e), SubSeq(s, 1, b - 1),
                                    SubSeq(s, e + 1, Len(s)))
               \o ReplaceFrom(s, e + 1, start, end, lead, trail, repl)

ReplaceAll(s, start, end, lead, trail, repl) ==
    ReplaceFrom(s, 1, start, end, lead, trail, repl)

\* ------------------------------------------------------------ the registry
\* getAllIDERules(): the rule targets, in the order the loops visit them.
\* body is the token of the target's generated text, mcpConfigPath is "" for
\* a target without MCP support and mcpEntry is the value generateMcpConfig()
\* gives mcpServers.valyrianctx.
AllRules ==
    << [id |-> "claude-code", filePath |-> "CLAUDE.md", appendToExisting |-> TRUE,
        gitignore |-> FALSE, body |-> "G:claude-code",
        mcpConfigPath |-> ".claude/settings.local.json", mcpEntry |-> "gen:claude-code"],
       [id |-> "cursor", filePath |-> ".cursor/rules/valyrianctx.mdc", appendToExisting |-> FALSE,
        gitignore |-> TRUE, body |-> "G:cursor",
        mcpConfigPath |-> ".cursor/mcp.json", mcpEntry |-> "gen:cursor"],
       [id |-> "antigravity", filePath |-> "GEMINI.md", appendToExisting |-> TRUE,
        gitignore |-> FALSE, body |-> "G:antigravity",
        mcpConfigPath |-> "", mcpEntry |-> ""],
       [id |-> "antigravity-dir", filePath |-> ".gemini/valyrianctx.md", appendToExisting |-> FALSE,
        gitignore |-> TRUE, body |-> "G:antigravity-dir",
        mcpConfigPath |-> "", mcpEntry |-> ""],
       [id |-> "opencode", filePath |-> "AGENTS.md", appendToExisting |-> TRUE,
        gitignore |-> FALSE, body |-> "G:opencode",
        mcpConfigPath |-> "", mcpEntry |-> ""],
       [id |-> "trae", filePath |-> ".trae/rules/valyrianctx.md", appendToExisting |-> FALSE,
        gitignore |-> TRUE, body |-> "G:trae",
        mcpConfigPath |-> "", mcpEntry |-> ""],
       [id |-> "warp", filePath |-> ".warp/valyrianctx.md", appendToExisting |-> FALSE,
        gitignore |-> TRUE, body |-> "G:warp",
        mcpConfigPath |-> "", mcpEntry |-> ""] >>

RuleIdx == 1..Len(AllRules)
RuleIds == {AllRules[i].id : i \in RuleIdx}
RulePaths == {AllRules[i].filePath : i \in RuleIdx}
SharedPaths == {AllRules[i].filePath : i \in {k \in RuleIdx : AllRules[k].appendToExisting}}
LocalPaths == {AllRules[i].filePath : i \in {k \in RuleIdx : AllRules[k].gitignore}}
McpPaths == {AllRules[i].mcpConfigPath : i \in {k \in RuleIdx : AllRules[k].mcpConfigPath # ""}}
RuleOfPath(p) == AllRules[CHOOSE i \in RuleIdx : AllRules[i].filePath = p]

\* rule.sectionMarker of an append-within-markers target
SectionMarker == [start |-> IStart, end |-> IEnd]

\* rule.generateContent(): the template, trimmed.  A shared target's text is
\* its body between the two instruction markers, each on a line of its own;
\* a dedicated file's text holds no marker.
GenerateContent(rule) ==
    IF rule.appendToExisting
    THEN <<SectionMarker.start, NL, rule.body, NL, SectionMarker.end>>
    ELSE <<rule.body>>

\* ------------------------------------------------------------ file values
NoFile == [exists |-> FALSE, text |-> <<>>]
File(text) == [exists |-> TRUE, text |-> text]

\* A tool configuration file: absent, not parseable, or a JSON object with
\* its top-level keys other than mcpServers (other) and its mcpServers value
\* (sv: the key is absent, null, or an object with the given entries).
NoEntries == [n \in {} |-> "none"]
NoConfig == [state |-> "absent", other |-> NoEntries, sv |-> "absent", entries |-> NoEntries]
Malformed == [state |-> "malformed", other |-> NoEntries, sv |-> "absent", entries |-> NoEntries]
Config(other, sv, entries) ==
    [state |-> "object", other |-> other, sv |-> sv, entries |-> entries]
OwnServer == "valyrianctx"

\* the first line of the labelled block of .gitignore
GitignoreHeader == "# ValyrianCtx IDE rules (local, not shared)"

\* ------------------------------------------------------------ write logic
\* appendOrUpdateSection without its test for an existing section
AppendOrUpdateSectionAlwaysAppends(f, content, markers) ==
    IF ~f.exists
    THEN [text |-> content \o <<NL>>, action |-> "created"]
    ELSE [text |-> f.text \o (IF EndsWithNL(f.text) THEN <<NL>> ELSE <<NL, NL>>)
                   \o content \o <<NL>>,
          action |-> IF Includes(f.text, markers.start) THEN "updated" ELSE "appended"]

\* appendOrUpdateSection rewriting the whole file when it updates a section
AppendOrUpdateSectionOverwrites(f, content, markers) ==
    IF ~f.exists
    THEN [text |-> content \o <<NL>>, action |-> "created"]
    ELSE IF Includes(f.text, markers.start)
    THEN [text |-> content, action |-> "updated"]
    ELSE [text |-> f.text \o (IF EndsWithNL(f.text) THEN <<NL>> ELSE <<NL, NL>>)
                   \o content \o <<NL>>,
          action |-> "appended"]

\* appendOrUpdateSection ending the replaced section with a newline, as the
\* other two branches end what they write
AppendOrUpdateSectionAddsNewline(f, content, markers) ==
    IF ~f.exists
    THEN [text |-> content \o <<NL>>, action |-> "created"]
    ELSE IF Includes(f.text, markers.start)
    THEN [text |-> ReplaceAll(f.text, markers.start, markers.end, "none", FALSE,
                              content \o <<NL>>),
          action |-> "updated"]
    ELSE [text |-> f.text \o (IF EndsWithNL(f.text) THEN <<NL>> ELSE <<NL, NL>>)
                   \o content \o <<NL>>,
          action |-> "appended"]

\* appendOrUpdateSection(filePath, content, markers): the text written to the
\* file and the action reported.
AppendOrUpdateSection(f, content, markers) ==
    IF ~f.exists
    THEN [text |-> content \o <<NL>>, action |-> "created"]
    ELSE IF Includes(f.text, markers.start)
    THEN [text |-> ReplaceAll(f.text, markers.start, markers.end, "none", FALSE, content),
          action |-> "updated"]
    ELSE [text |-> f.text \o (IF EndsWithNL(f.text) THEN <<NL>> ELSE <<NL, NL>>)
                   \o content \o <<NL>>,
          action |-> "appended"]

\* mcpServers built from the generated entry alone, without the spread of
\* existing.mcpServers
MergeServersOwnOnly(existing, entry) ==
    [n \in {OwnServer} |-> entry]

\* the mcpServers entries spread into the merged document:
\* ...(existing.mcpServers || {}), ...mcpConfig.mcpServers
MergeServers(existing, entry) ==
    LET old == IF existing.sv = "object" THEN existing.entries ELSE NoEntries
    IN [n \in DOMAIN old \cup {OwnServer} |-> IF n = OwnServer THEN entry ELSE old[n]]

\* writeMcpConfig leaving alone a file that does not parse
WriteMcpConfigKeepsMalformed(cfg, entry) ==
    LET existing == IF cfg.state = "object" THEN cfg ELSE Config(NoEntries, "absent", NoEntries)
    IN [doc |-> IF cfg.state = "malformed" THEN cfg
                ELSE Config(existing.other, "object", MergeServers(existing, entry)),
        action |-> IF cfg.state = "absent" THEN "created" ELSE "updated"]

\* writeMcpConfig(repoRoot, configPath, mcpConfig): the document written and
\* the action reported.  A file that does not parse counts as {}.
WriteMcpConfig(cfg, entry) ==
    LET existing == IF cfg.state = "object" THEN cfg ELSE Config(NoEntries, "absent", NoEntries)
    IN [doc |-> Config(existing.other, "object", MergeServers(existing, entry)),
        action |-> IF cfg.state = "absent" THEN "created" ELSE "updated"]

\* the text updateGitignore looks for to decide whether the header is there
HeaderProbe == "# ValyrianCtx IDE rules"

\* the lines of a .gitignore that hold another line as a proper substring:
\* the header holds the probe, a negated pattern holds the path it negates
ProperSubstrings ==
    {<<HeaderProbe, GitignoreHeader>>,
     <<".warp/valyrianctx.md", "!.warp/valyrianctx.md">>}

\* content.includes(s) for a one-line string s: some line of content holds s
IncludesText(content, str) ==
    \E i \in 1..Len(content) :
        content[i] = str \/ <<str, content[i]>> \in ProperSubstrings

\* the filter keeping every path
FilterNewKeepsAll(paths, content) == paths

\* paths.filter(p => !content.includes(p))
RECURSIVE FilterNew(_, _)
FilterNew(paths, content) ==
    IF paths = <<>> THEN <<>>
    ELSE (IF IncludesText(content, Head(paths)) THEN <<>> ELSE <<Head(paths)>>)
         \o FilterNew(Tail(paths), content)

\* toAdd.join("\n")
RECURSIVE JoinLines(_)
JoinLines(lines) ==
    IF Len(lines) <= 1 THEN lines
    ELSE <<Head(lines), NL>> \o JoinLines(Tail(lines))

\* updateGitignore(repoRoot, paths): the file value of .gitignore afterwards
UpdateGitignore(gi, paths) ==
    LET content == IF gi.exists THEN gi.text ELSE <<>>
        toAdd == FilterNew(paths, content)
        header == IF IncludesText(content, HeaderProbe) THEN <<>>
                  ELSE <<NL, GitignoreHeader, NL>>
    IN IF Len(toAdd) > 0
       THEN File(content \o header \o JoinLines(toAdd) \o <<NL>>)
       ELSE gi

\* the loop writing a dedicated file the way it writes a shared one, below
\* what the file holds
RuleFileWriteKeepsFile(f, rule) ==
    AppendOrUpdateSection(f, GenerateContent(rule), SectionMarker)

\* What one iteration of the loop of writeIDERules writes to the rule file
\* and reports for it.
RuleFileWrite(f, rule) ==
    IF rule.appendToExisting
    THEN AppendOrUpdateSection(f, GenerateContent(rule), SectionMarker)
    ELSE [text |-> GenerateContent(rule) \o <<NL>>,
          action |-> IF f.exists THEN "updated" ELSE "created"]

\* The loop state after the rule file was written as r says: the file, the
\* written list and gitignoreAdditions.
AfterRuleFile(st, rule, r) ==
    [st EXCEPT !.files[rule.filePath] = File(r.text),
               !.written = @ \o <<[path |-> rule.filePath, action |-> r.action]>>,
               !.additions = IF rule.gitignore THEN @ \o <<rule.filePath>> ELSE @]

\* The loop state after writeMcpConfig returned m.
AfterMcpConfig(st, rule, m) ==
    [st EXCEPT !.mcp[rule.mcpConfigPath] = m.doc,
               !.written = @ \o <<[path |-> rule.mcpConfigPath, action |-> m.action]>>,
               !.additions = @ \o <<rule.mcpConfigPath>>]

\* "Configure MCP if requested and supported"
ConfigureMcp(st, rule, includeMcp, bad) ==
    IF ~(includeMcp /\ rule.mcpConfigPath # "") THEN st
    ELSE IF rule.mcpConfigPath \in bad THEN [st EXCEPT !.threw = TRUE]
    ELSE AfterMcpConfig(st, rule, WriteMcpConfig(st.mcp[rule.mcpConfigPath], rule.mcpEntry))

\* One iteration of the loop of writeIDERules over rulesToWrite.  st carries
\* the file system, the written list, gitignoreAdditions and whether a
\* writeFileSync threw; bad is the set of paths on which it throws.
WriteOneRule(st, rule, includeMcp, bad) ==
    IF rule.filePath \in bad THEN [st EXCEPT !.threw = TRUE]
    ELSE ConfigureMcp(AfterRuleFile(st, rule, RuleFileWrite(st.files[rule.filePath], rule)),
                      rule, includeMcp, bad)

\* for (const rule of rulesToWrite) { ... }: nothing catches inside the loop,
\* so the first throw ends it.
RECURSIVE WriteLoop(_, _, _, _, _)
WriteLoop(st, i, ides, includeMcp, bad) ==
    IF i > Len(AllRules) \/ st.threw THEN st
    ELSE WriteLoop(IF AllRules[i].id \in ides
                   THEN WriteOneRule(st, AllRules[i], includeMcp, bad) ELSE st,
                   i + 1, ides, includeMcp, bad)

\* The end of writeIDERules: st is the loop's final state and newGi what
\* updateGitignore makes of .gitignore; the write of .gitignore can throw too.
FinishWrite(st, gi, newGi, bad) ==
    IF st.threw \/ Len(st.additions) = 0
    THEN [files |-> st.files, mcp |-> st.mcp, gitignore |-> gi,
          threw |-> st.threw, written |-> st.written]
    ELSE IF newGi # gi /\ ".gitignore" \in bad
    THEN [files |-> st.files, mcp |-> st.mcp, gitignore |-> gi,
          threw |-> TRUE, written |-> st.written]
    ELSE [files |-> st.files, mcp |-> st.mcp, gitignore |-> newGi,
          threw |-> FALSE, written |-> st.written]

GitignoreAfter(st, gi) == UpdateGitignore(gi, st.additions)

FinishWriteOf(st, gi, bad) == FinishWrite(st, gi, GitignoreAfter(st, gi), bad)

\* writeIDERules(repoRoot, {ides, includeMcp}) as a whole: the loop, then
\* updateGitignore when anything was collected, then the return.
WriteIDERulesResult(fs, mcp, gi, ides, includeMcp, bad) ==
    FinishWriteOf(WriteLoop([files |-> fs, mcp |-> mcp, written |-> <<>>,
                             additions |-> <<>>, threw |-> FALSE],
                            1, ides, includeMcp, bad),
                  gi, bad)

\* ----------------------------------------------------------- remove logic
\* the rule-file half of removeIDERules without the trim of the remainder
RemoveRuleFileUntrimmed(st, rule, bad) ==
    LET f == st.files[rule.filePath]
        updated == ReplaceAll(f.text, SectionMarker.start, SectionMarker.end,
                              "opt", TRUE, <<>>)
    IN IF ~f.exists THEN st
       ELSE IF rule.appendToExisting
       THEN IF ~Includes(f.text, SectionMarker.start) THEN st
            ELSE IF Len(updated) > 0
            THEN [st EXCEPT !.files[rule.filePath] = File(updated \o <<NL>>),
                            !.removed = @ \o <<rule.filePath>>]
            ELSE [st EXCEPT !.files[rule.filePath] = NoFile,
                            !.removed = @ \o <<rule.filePath>>]
       ELSE [st EXCEPT !.files[rule.filePath] = NoFile,
                       !.removed = @ \o <<rule.filePath>>]

\* The rule-file half of one iteration of removeIDERules.
RemoveRuleFile(st, rule, bad) ==
    LET f == st.files[rule.filePath]
        updated == Trim(ReplaceAll(f.text, SectionMarker.start, SectionMarker.end,
                                   "opt", TRUE, <<>>))
    IN IF ~f.exists THEN st
       ELSE IF rule.appendToExisting
       THEN IF ~Includes(f.text, SectionMarker.start) THEN st
            ELSE IF Len(updated) > 0
            THEN IF rule.filePath \in bad THEN [st EXCEPT !.threw = TRUE]
                 ELSE [st EXCEPT !.files[rule.filePath] = File(updated \o <<NL>>),
                                 !.removed = @ \o <<rule.filePath>>]
            ELSE [st EXCEPT !.files[rule.filePath] = NoFile,
                            !.removed = @ \o <<rule.filePath>>]
       ELSE [st EXCEPT !.files[rule.filePath] = NoFile,
                       !.removed = @ \o <<rule.filePath>>]

\* The document left by deleting mcpServers.valyrianctx, and mcpServers with
\* it when that leaves the collection empty.
WithoutOwnServer(cfg) ==
    LET rest == [n \in DOMAIN cfg.entries \ {OwnServer} |-> cfg.entries[n]]
    IN IF DOMAIN rest = {}
       THEN Config(cfg.other, "absent", NoEntries)
       ELSE Config(cfg.other, "object", rest)

\* the emptiness test looking at mcpServers alone
HasNoServers(cfg) == cfg.sv = "absent"

\* Object.keys(config).length === 0
HasNoKeys(cfg) == DOMAIN cfg.other = {} /\ cfg.sv = "absent"

\* The MCP half of one iteration of removeIDERules.  The whole block sits in
\* a try whose catch ignores the error, so neither a file that does not
\* parse nor a failing write is reported.
RemoveMcpEntry(st, rule, bad) ==
    LET cfg == st.mcp[rule.mcpConfigPath]
        reduced == WithoutOwnServer(cfg)
    IN IF rule.mcpConfigPath = "" THEN st
       ELSE IF cfg.state # "object" THEN st
       ELSE IF ~(cfg.sv = "object" /\ OwnServer \in DOMAIN cfg.entries) THEN st
       ELSE IF HasNoKeys(reduced)
       THEN [st EXCEPT !.mcp[rule.mcpConfigPath] = NoConfig,
                       !.removed = @ \o <<rule.mcpConfigPath>>]
       ELSE IF rule.mcpConfigPath \in bad THEN st
       ELSE [st EXCEPT !.mcp[rule.mcpConfigPath] = reduced,
                       !.removed = @ \o <<rule.mcpConfigPath>>]

RECURSIVE RemoveLoop(_, _, _)
RemoveLoop(st, i, bad) ==
    IF i > Len(AllRules) \/ st.threw THEN st
    ELSE LET s1 == RemoveRuleFile(st, AllRules[i], bad)
         IN RemoveLoop(IF s1.threw THEN s1 ELSE RemoveMcpEntry(s1, AllRules[i], bad),
                       i + 1, bad)

\* removeIDERules(repoRoot) as a whole
RemoveIDERulesResult(fs, mcp, bad) ==
    RemoveLoop([files |-> fs, mcp |-> mcp, removed |-> <<>>, threw |-> FALSE], 1, bad)

\* ------------------------------------------------------ context injection
CONTEXT_MARKERS == [start |-> CStart, end |-> CEnd]

\* the section injectContextIntoRules builds around contextMarkdown:
\* ten lines joined by "\n"
ContextSection(contextMarkdown) ==
    <<CONTEXT_MARKERS.start, NL, NL, "H1", NL, NL, "H2", NL, "H3", NL, NL>>
    \o contextMarkdown \o <<NL, NL, CONTEXT_MARKERS.end>>

\* the text injectContextIntoRules writes to an existing IDE-local file
InjectedText(content, section) ==
    IF Includes(content, CONTEXT_MARKERS.start)
    THEN ReplaceAll(content, CONTEXT_MARKERS.start, CONTEXT_MARKERS.end, "none", FALSE, section)
    ELSE content \o (IF EndsWithNL(content) THEN <<NL>> ELSE <<NL, NL>>)
         \o section \o <<NL>>

RECURSIVE InjectLoop(_, _, _, _)

\* the loop without the test of rule.gitignore
InjectLoopAllTargets(st, i, section, bad) ==
    IF i > Len(AllRules) \/ st.threw THEN st
    ELSE LET rule == AllRules[i]
             f == st.files[rule.filePath]
         IN InjectLoop(
              IF ~f.exists THEN st
              ELSE IF rule.filePath \in bad THEN [st EXCEPT !.threw = TRUE]
              ELSE [st EXCEPT !.files[rule.filePath] = File(InjectedText(f.text, section)),
                              !.count = @ + 1],
              i + 1, section, bad)

InjectLoop(st, i, section, bad) ==
    IF i > Len(AllRules) \/ st.threw THEN st
    ELSE LET rule == AllRules[i]
             f == st.files[rule.filePath]
         IN InjectLoop(
              IF ~rule.gitignore \/ ~f.exists THEN st
              ELSE IF rule.filePath \in bad THEN [st EXCEPT !.threw = TRUE]
              ELSE [st EXCEPT !.files[rule.filePath] = File(InjectedText(f.text, section)),
                              !.count = @ + 1],
              i + 1, section, bad)

\* injectContextIntoRules(repoRoot, contextMarkdown) as a whole
InjectContextIntoRulesResult(fs, contextMarkdown, bad) ==
    InjectLoop([files |-> fs, count |-> 0, threw |-> FALSE], 1,
               ContextSection(contextMarkdown), bad)

\* the text clearContextFromRules writes to a file that holds the start marker
ClearedText(content) ==
    TrimEnd(ReplaceAll(content, CONTEXT_MARKERS.start, CONTEXT_MARKERS.end,
                       "many", TRUE, <<>>)) \o <<NL>>

RECURSIVE ClearLoop(_, _, _)
ClearLoop(st, i, bad) ==
    IF i > Len(AllRules) \/ st.threw THEN st
    ELSE LET rule == AllRules[i]
             f == st.files[rule.filePath]
         IN ClearLoop(
              IF ~rule.gitignore \/ ~f.exists THEN st
              ELSE IF ~Includes(f.text, CONTEXT_MARKERS.start) THEN st
              ELSE IF rule.filePath \in bad THEN [st EXCEPT !.threw = TRUE]
              ELSE [st EXCEPT !.files[rule.filePath] = File(ClearedText(f.text)),
                              !.count = @ + 1],
              i + 1, bad)

\* clearContextFromRules(repoRoot) as a whole
ClearContextFromRulesResult(fs, bad) ==
    ClearLoop([files |-> fs, count |-> 0, threw |-> FALSE], 1, bad)

\* ----------------------------------------------------- session extraction
\* the extractors array of extractFromEditorSessions, in priority order
Extractors ==
    <<"extractFromClaudeCode", "extractFromAntigravity", "extractFromCursor",
      "extractFromOpenCode", "extractFromTrae", "extractFromWarp">>

\* What an editor's storage holds for this repository:
\*   "absent"  the source root directory does not exist
\*   "nothing" the root exists but holds no session of this repository
\*   "broken"  reading or parsing it throws (unreadable file, malformed JSON)
\*   "noTask"  a session is parsed but its task comes out as the empty string
\*   "task"    a session is parsed and has a task
SourceStates == {"absent", "nothing", "broken", "noTask", "task"}

\* null
NoContext == [found |-> FALSE, task |-> "", source |-> "", decisions |-> {}]

\* the ExtractedContext an extractor builds from its own source
ContextOf(extractor, task) ==
    [found |-> TRUE, task |-> task, source |-> extractor,
     decisions |-> {<<"decision", extractor>>}]

\* await extractor(repoPath)
RunExtractor(extractor, state) ==
    CASE state = "absent"  -> [kind |-> "return", value |-> NoContext]
      [] state = "nothing" -> [kind |-> "return", value |-> NoContext]
      [] state = "broken"  -> [kind |-> "throw", value |-> NoContext]
      [] state = "noTask"  -> [kind |-> "return", value |-> ContextOf(extractor, "")]
      [] state = "task"    -> [kind |-> "return",
                               value |-> ContextOf(extractor, <<"task", extractor>>)]

RECURSIVE ExtractLoop(_, _, _)

\* the loop body without the test of result.task
AfterExtractorAnyResult(srcs, i, invoked, o) ==
    IF o.kind = "return" /\ o.value.found
    THEN [result |-> o.value, invoked |-> invoked, threw |-> FALSE]
    ELSE ExtractLoop(srcs, i + 1, invoked)

\* the loop body without the try/catch
AfterExtractorUncaught(srcs, i, invoked, o) ==
    IF o.kind = "throw"
    THEN [result |-> NoContext, invoked |-> invoked, threw |-> TRUE]
    ELSE IF o.value.found /\ o.value.task # ""
    THEN [result |-> o.value, invoked |-> invoked, threw |-> FALSE]
    ELSE ExtractLoop(srcs, i + 1, invoked)

\* try { if (result && result.task) return result; } catch {}
AfterExtractor(srcs, i, invoked, o) ==
    IF o.kind = "return" /\ o.value.found /\ o.value.task # ""
    THEN [result |-> o.value, invoked |-> invoked, threw |-> FALSE]
    ELSE ExtractLoop(srcs, i + 1, invoked)

\* for (const extractor of extractors) ...; return null
ExtractLoop(srcs, i, invoked) ==
    IF i > Len(Extractors)
    THEN [result |-> NoContext, invoked |-> invoked, threw |-> FALSE]
    ELSE AfterExtractor(srcs, i, Append(invoked, Extractors[i]),
                        RunExtractor(Extractors[i], srcs[Extractors[i]]))

ExtractFromEditorSessionsResult(srcs) == ExtractLoop(srcs, 1, <<>>)

\* ------------------------------------------------------------ text mining
\* Message text is a sequence of pieces: "D" the words "We decided to use
\* Postgres because we need transactions", "s" the short fragment "use it",
\* "R" "Refactor payment service", "B" "Also check billing", "k" "ok", "W" a
\* line of 300 characters, "A" "I tried the cache first" and "A:tried" its
\* part from "tried" on, "." a sentence terminator, and the whitespace SP
\* and NL.
PieceLen(t) ==
    CASE t = "D" -> 55 [] t = "s" -> 6 [] t = "R" -> 24 [] t = "B" -> 18
      [] t = "k" -> 2 [] t = "W" -> 300 [] t = "A" -> 23 [] t = "A:tried" -> 21
      [] OTHER -> 1

RECURSIVE TextLen(_)
TextLen(text) == IF text = <<>> THEN 0 ELSE PieceLen(Head(text)) + TextLen(Tail(text))

\* the index of the first piece at or after i that is not whitespace
RECURSIVE SkipSpace(_, _)
SkipSpace(text, i) ==
    IF i <= Len(text) /\ IsSpace(text[i]) THEN SkipSpace(text, i + 1) ELSE i

\* msg.split(/[.!?]\s+/): cur is the sentence collected so far
RECURSIVE SplitSentences(_, _, _)
SplitSentences(text, i, cur) ==
    IF i > Len(text) THEN <<cur>>
    ELSE IF text[i] = "." /\ i < Len(text) /\ IsSpace(text[i + 1])
    THEN <<cur>> \o SplitSentences(text, SkipSpace(text, i + 1), <<>>)
    ELSE SplitSentences(text, i + 1, Append(cur, text[i]))

\* sentence.match(/\b(decid|chos|...|us(?:e|ing)|...)/i)
HasDecisionWord(sentence) == Includes(sentence, "D") \/ Includes(sentence, "s")

\* messages.slice(-n)
LastOf(messages, n) ==
    IF Len(messages) <= n THEN messages
    ELSE SubSeq(messages, Len(messages) - n + 1, Len(messages))

\* for (const sentence of sentences) { ... decisions.push(cleaned) }
RECURSIVE DecisionsOfSentences(_, _, _)
DecisionsOfSentences(decisions, sentences, k) ==
    IF k > Len(sentences) THEN decisions
    ELSE DecisionsOfSentences(
           IF /\ HasDecisionWord(sentences[k])
              /\ TextLen(Trim(sentences[k])) > 20
              /\ TextLen(Trim(sentences[k])) < 300
              /\ \A j \in 1..Len(decisions) : decisions[j] # Trim(sentences[k])
           THEN Append(decisions, Trim(sentences[k]))
           ELSE decisions,
           sentences, k + 1)

\* for (const msg of messages.slice(-10)) { ... }
RECURSIVE DecisionsOfMessages(_, _, _)
DecisionsOfMessages(decisions, messages, m) ==
    IF m > Len(messages) THEN decisions
    ELSE DecisionsOfMessages(
           DecisionsOfSentences(decisions, SplitSentences(messages[m], 1, <<>>), 1),
           messages, m + 1)

\* extractDecisions(messages)
ExtractDecisions(messages) ==
    SubSeq(DecisionsOfMessages(<<>>, LastOf(messages, 10), 1), 1,
           IF Len(DecisionsOfMessages(<<>>, LastOf(messages, 10), 1)) < 10
           THEN Len(DecisionsOfMessages(<<>>, LastOf(messages, 10), 1)) ELSE 10)

\* ------------------------------------------------------ Claude transcript
\* A line of a session .jsonl is a record: type "malformed" when JSON.parse
\* throws, else entry.type, with text what extractMessageText(entry) gives.
Line(type, text) == [type |-> type, text |-> text]

\* text.split("\n")[0]
RECURSIVE FirstLine(_)
FirstLine(text) ==
    IF text = <<>> \/ Head(text) = NL THEN <<>>
    ELSE <<Head(text)>> \o FirstLine(Tail(text))

\* text.slice(0, n): the text and where it was cut (0: not cut)
Slice(text, n) == [text |-> text, cut |-> IF TextLen(text) > n THEN n ELSE 0]

\* the user messages collected without the test of text.length
UserTextsUnfiltered(lines) ==
    [k \in 1..Len(SelectSeq(lines, LAMBDA l : l.type = "user")) |->
        SelectSeq(lines, LAMBDA l : l.type = "user")[k].text]

\* lastUserMessages: the text of the user entries that have 5 characters or
\* more, in order
UserTexts(lines) ==
    [k \in 1..Len(SelectSeq(lines, LAMBDA l : l.type = "user" /\ TextLen(l.text) >= 5)) |->
        SelectSeq(lines, LAMBDA l : l.type = "user" /\ TextLen(l.text) >= 5)[k].text]

\* lastAssistantMessages: assistant entries of more than 20 characters
AssistantTexts(lines) ==
    [k \in 1..Len(SelectSeq(lines, LAMBDA l : l.type = "assistant" /\ TextLen(l.text) > 20)) |->
        SelectSeq(lines, LAMBDA l : l.type = "assistant" /\ TextLen(l.text) > 20)[k].text]

\* firstUserMessages
FirstThree(texts) == SubSeq(texts, 1, IF Len(texts) < 3 THEN Len(texts) ELSE 3)

\* task
TaskOfIntent(intent) ==
    IF TextLen(Trim(FirstLine(intent))) < 300
    THEN Slice(Trim(FirstLine(intent)), 300)
    ELSE Slice(intent, 200)

\* one of additionalRequests, as an approaches entry
AlsoAsked(m) ==
    [prefix |-> "User also asked: ", body |-> Slice(Trim(FirstLine(m)), 200)]

\* extractApproaches(messages): what the patterns match in the last ten
\* messages, without repeats, eight at most
RECURSIVE ApproachesOf(_, _, _)
ApproachesOf(approaches, messages, m) ==
    IF m > Len(messages) THEN approaches
    ELSE ApproachesOf(
           IF Includes(messages[m], "A")
              /\ \A j \in 1..Len(approaches) : approaches[j] # <<"A:tried">>
           THEN Append(approaches, <<"A:tried">>) ELSE approaches,
           messages, m + 1)

ExtractApproaches(messages) ==
    SubSeq(ApproachesOf(<<>>, LastOf(messages, 10), 1), 1,
           IF Len(ApproachesOf(<<>>, LastOf(messages, 10), 1)) < 8
           THEN Len(ApproachesOf(<<>>, LastOf(messages, 10), 1)) ELSE 8)

MinedApproaches(lines) ==
    [k \in 1..Len(ExtractApproaches(LastOf(AssistantTexts(lines), 10))) |->
        [prefix |-> "", body |-> Slice(ExtractApproaches(LastOf(AssistantTexts(lines), 10))[k], 200)]]

NoSession == [found |-> FALSE, task |-> Slice(<<>>, 0), approaches |-> <<>>]

\* the result built from firstUserMessages (users) and the transcript
SessionResult(users, lines) ==
    IF Len(users) = 0 THEN NoSession
    ELSE [found |-> TRUE,
          task |-> TaskOfIntent(users[1]),
          approaches |->
              [k \in 1..(Len(users) - 1) |-> AlsoAsked(users[k + 1])]
              \o MinedApproaches(lines)]

\* parseClaudeSession on the lines readLastLines returned
ParseClaudeSession(lines) == SessionResult(FirstThree(UserTexts(lines)), lines)

\* ------------------------------------------------------------ currentState
\* The currentState of a result, by its length in characters.
\* n characters after .slice(0, StateLimit)
SliceLen(n) == IF n > StateLimit THEN StateLimit ELSE n

\* extractState(messages): the state phrase matched in the last message
\* (matchLen characters, 0 when nothing matches), else its last line of more
\* than 20 characters (lineLen, 0 when there is none), cut to 300
ExtractStateLen(matchLen, lineLen) ==
    IF matchLen > 0 THEN SliceLen(matchLen)
    ELSE IF lineLen > 20 THEN SliceLen(lineLen)
    ELSE 0

\* parseClaudeSession: currentState || "Session data parsed from Claude Code"
ClaudeSessionStateLen(a) ==
    IF ExtractStateLen(a.matchLen, a.lineLen) > 0
    THEN ExtractStateLen(a.matchLen, a.lineLen) ELSE 36

\* extractFromAntigravity, walkthrough.md: the title of titleLen characters,
\* then ". " and the first section cut to 300, or ". See approaches for
\* details." when a Changes section was found
WalkthroughStateLen(titleLen, a) ==
    IF a.hasSection /\ ~a.hasChanges
    THEN (IF titleLen > 0 THEN titleLen + 2 + SliceLen(a.detailLen)
          ELSE SliceLen(a.detailLen))
    ELSE IF a.hasChanges
    THEN (IF titleLen > 0 THEN titleLen + 2 + 27 ELSE 27)
    ELSE titleLen

\* extractFromAntigravity: currentState || "Loaded from Antigravity brain artifacts"
AntigravityStateLen(a) ==
    IF ~a.hasWalkthrough THEN 39
    ELSE IF WalkthroughStateLen(a.titleLen, a) > 0
    THEN WalkthroughStateLen(a.titleLen, a) ELSE 39

\* extractFromOpenCode, context.json: ctx.state || ctx.currentState ||
\* "Loaded from OpenCode"
OpenCodeStateLen(a) == IF a.ctxStateLen > 0 THEN a.ctxStateLen ELSE 20

\* ------------------------------------------------- decisions and nextSteps
\* A line of task.md is "todo:<item>" for "- [ ] <item>" and "done:<item>"
\* for "- [x] <item>".
IsTodo(line) == line \in {"todo:a", "todo:b"}
ItemOf(line) == IF line \in {"todo:a", "done:a"} THEN "a" ELSE "b"

\* items.slice(0, n)
FirstOf(items, n) == SubSeq(items, 1, IF Len(items) < n THEN Len(items) ELSE n)

\* extractIncompleteItems(content): every "- [ ] " item, eight at most
ExtractIncompleteItems(content) ==
    FirstOf([k \in 1..Len(SelectSeq(content, IsTodo)) |-> ItemOf(SelectSeq(content, IsTodo)[k])], 8)

\* [...new Set(steps)]
RECURSIVE Distinct(_)
Distinct(items) ==
    IF items = <<>> THEN <<>>
    ELSE LET front == Distinct(SubSeq(items, 1, Len(items) - 1))
         IN IF \E j \in 1..Len(front) : front[j] = items[Len(items)]
            THEN front ELSE Append(front, items[Len(items)])

\* extractNextSteps(messages), steps being the list items that follow a
\* "next steps" heading in the last five messages
ExtractNextSteps(steps) == FirstOf(Distinct(steps), 8)

\* extractFromAntigravity, implementation_plan.md: every bullet of one
\* sentence that has a decision word and more than 20 characters is pushed
PlanDecisions(bullets) ==
    SelectSeq([k \in 1..Len(bullets) |-> Trim(bullets[k])],
              LAMBDA c : HasDecisionWord(c) /\ TextLen(c) > 20)

\* the decisions and nextSteps of extractFromAntigravity's result
AntigravityLists(a) ==
    [decisions |-> PlanDecisions(a.plan), nextSteps |-> ExtractIncompleteItems(a.task)]

\* the decisions and nextSteps of parseClaudeSession's result, for assistant
\* messages that say what the plan's bullets say and list the open items
ClaudeSessionLists(a) ==
    [decisions |-> ExtractDecisions(a.plan),
     nextSteps |-> ExtractNextSteps(
                     [k \in 1..Len(SelectSeq(a.task, IsTodo)) |->
                         ItemOf(SelectSeq(a.task, IsTodo)[k])])]

\* ------------------------------------------------------------ readLastLines
\* The lines of a file are numbered 1..n.
\* the loop body splicing as soon as the buffer holds more than maxLines
PushLineEarlySplice(buffer, line, maxLines) ==
    IF Len(buffer) + 1 > maxLines
    THEN SubSeq(Append(buffer, line), maxLines + 1, Len(buffer) + 1)
    ELSE Append(buffer, line)

\* buffer.push(line); if (buffer.length > maxLines * 2) buffer.splice(0, maxLines)
PushLine(buffer, line, maxLines) ==
    IF Len(buffer) + 1 > maxLines * 2
    THEN SubSeq(Append(buffer, line), maxLines + 1, Len(buffer) + 1)
    ELSE Append(buffer, line)

\* buffer.slice(-maxLines)
LastLines(buffer, maxLines) ==
    IF Len(buffer) <= maxLines THEN buffer
    ELSE SubSeq(buffer, Len(buffer) - maxLines + 1, Len(buffer))

\* ------------------------------------------------------------------ status
\* exists for a shared target taken to be the existence of its file
RuleExistsByFile(f, rule) == f.exists

\* exists: the file is there and, for a shared target, holds the start marker
RuleExists(f, rule) ==
    f.exists /\ (rule.appendToExisting => Includes(f.text, SectionMarker.start))

\* hasMcpConfig: !!config.mcpServers?.valyrianctx of a file that parses
HasMcpConfig(mcp, rule) ==
    /\ rule.mcpConfigPath # ""
    /\ mcp[rule.mcpConfigPath].state = "object"
    /\ mcp[rule.mcpConfigPath].sv = "object"
    /\ OwnServer \in DOMAIN mcp[rule.mcpConfigPath].entries

\* listIDERules(repoRoot): one status for each target, in registry order
ListIDERulesResult(fs, mcp) ==
    [i \in RuleIdx |->
        [id |-> AllRules[i].id, filePath |-> AllRules[i].filePath,
         exists |-> RuleExists(fs[AllRules[i].filePath], AllRules[i]),
         hasMcpConfig |-> HasMcpConfig(mcp, AllRules[i])]]

\* -------------------------------------------------------------- MCP server
\* the tool calls one server process is followed for
MaxCalls == 3

CallIds == 1..MaxCalls

Tools == {"valyrianctx_resume", "valyrianctx_save", "valyrianctx_log"}

\* the banner, the generated prompt and the closing rule, joined
AutoResumeContext == "auto-resumed context"

\* the part of getAutoResumePrefix before its first await, with the flag
\* left as it was found
GetAutoResumePrefixKeepsFlag(sessionResumed, isResumeCall) ==
    [sessionResumed |-> sessionResumed \/ isResumeCall,
     loads |-> ~(sessionResumed \/ isResumeCall)]

\* the part of getAutoResumePrefix before its first await: the flag is read
\* and set in one turn; loads tells whether the context is then loaded
GetAutoResumePrefix(sessionResumed, isResumeCall) ==
    [sessionResumed |-> TRUE,
     loads |-> ~(sessionResumed \/ isResumeCall)]

\* what getAutoResumePrefix returns once loadBranchContext has answered
LoadedPrefix(store, threw) ==
    IF threw \/ store # "entries" THEN "" ELSE AutoResumeContext

NoResponse == [sent |-> FALSE, prefix |-> "", error |-> FALSE]

NoCall == [tool |-> "none", pc |-> "idle", prefix |-> "", response |-> NoResponse]

\* ------------------------------------------------------------ save command
\* the save commands one run follows, the minutes it lasts
MaxSaves == 2
MaxClock == 6

SaveIds == 1..MaxSaves

\* 5 * 60 * 1000 ms, in minutes
RichWindowMinutes == 5

AutoPlaceholder == "Session (auto-extract found nothing)"

\* loadBranchContext(branch): the branch's entries, oldest first
LoadBranchContext(st) == st.entries

\* saveContext(entry): the entry becomes the branch's latest
SaveContext(st, entry) == [st EXCEPT !.entries = Append(@, entry)]

\* generatePrompt(entries): the rendered summary, here one piece for each
\* entry, its task
GeneratePrompt(entries) == [i \in 1..Len(entries) |-> entries[i].task]

\* the task an extractor takes from its editor's session
SessionTask(source) ==
    CASE source = "extractFromClaudeCode" -> "task of the Claude Code session"
      [] source = "extractFromAntigravity" -> "task of the Antigravity session"
      [] source = "extractFromCursor" -> "task of the Cursor session"
      [] source = "extractFromOpenCode" -> "task of the OpenCode session"
      [] source = "extractFromTrae" -> "task of the Trae session"
      [] source = "extractFromWarp" -> "task of the Warp session"

\* An option such as --approaches is the sequence of the parts its value has
\* between ";;"; <<>> is the option not given, " " a blank part.
NotBlank(part) == part # " "

\* value.split(";;").map(s => s.trim()).filter(Boolean)
SplitOption(value) == SelectSeq(value, NotBlank)

NoOptions == [auto |-> FALSE, approaches |-> <<>>, decisions |-> <<>>, state |-> ""]

\* options?.approaches || options?.decisions || options?.state || options?.nextSteps
HasStructuredInput(options) ==
    options.approaches # <<>> \/ options.decisions # <<>> \/ options.state # ""

\* latest.approaches.length > 0 || latest.decisions.length > 0
IsRichSave(latest) == Len(latest.approaches) > 0 \/ Len(latest.decisions) > 0

\* the guard of save --auto: the latest entry is a structured one and less
\* than five minutes old
RecentRichSave(existing, now) ==
    /\ Len(existing) > 0
    /\ IsRichSave(existing[Len(existing)])
    /\ now - existing[Len(existing)].timestamp < RichWindowMinutes

\* the else branch of if (extracted) without the placeholder
AutoFieldsMessageOnly(message, extracted) ==
    IF extracted.found
    THEN [task |-> IF message # "" THEN message ELSE SessionTask(extracted.source),
          approaches |-> <<>>, decisions |-> <<"decision of the session">>,
          currentState |-> "state of the session"]
    ELSE [task |-> message, approaches |-> <<>>, decisions |-> <<>>,
          currentState |-> message]

\* save --auto after extractFromEditorSessions: the fields of the entry
AutoFields(message, extracted) ==
    IF extracted.found
    THEN [task |-> IF message # "" THEN message ELSE SessionTask(extracted.source),
          approaches |-> <<>>, decisions |-> <<"decision of the session">>,
          currentState |-> "state of the session"]
    ELSE [task |-> IF message # "" THEN message ELSE AutoPlaceholder,
          approaches |-> <<>>, decisions |-> <<>>,
          currentState |-> message]

\* save without --auto: programmatic mode, interactive mode (the prompt is
\* answered with the task "t" and the state "t") or simple message mode
ManualFields(message, options) ==
    IF HasStructuredInput(options) /\ message # ""
    THEN [task |-> message, approaches |-> SplitOption(options.approaches),
          decisions |-> SplitOption(options.decisions),
          currentState |-> IF options.state # "" THEN options.state ELSE message]
    ELSE IF message = ""
    THEN [task |-> "t", approaches |-> <<>>, decisions |-> <<>>, currentState |-> "t"]
    ELSE [task |-> message, approaches |-> <<>>, decisions |-> <<>>,
          currentState |-> message]

\* const entry: ContextEntry = { id: uuid(), timestamp: new Date(), ... }
EntryOf(id, now, fields) ==
    [id |-> id, timestamp |-> now, task |-> fields.task,
     approaches |-> fields.approaches, decisions |-> fields.decisions,
     currentState |-> fields.currentState]

NoEntry == EntryOf(0, 0, [task |-> "", approaches |-> <<>>, decisions |-> <<>>,
                          currentState |-> ""])

\* a save command not yet started
NoSave == [pc |-> "idle", message |-> "", options |-> NoOptions, outcome |-> "",
           extracted |-> NoContext, scanned |-> FALSE, entry |-> NoEntry,
           prompt |-> <<>>, i |-> 1, content |-> <<>>, injected |-> 0]

\* ---------------------------------------------------------------- git hooks
\* the longest hook file a repository starts with
MaxHookLen == 3

MARKER_START == "# valyrianctx:hook:start"
MARKER_END == "# valyrianctx:hook:end"

Shebang == "#!/bin/sh"

\* HOOKS: name and script, in the order the loops visit them
HOOKS ==
    << [name |-> "post-commit", script |-> "valyrianctx save --auto"],
       [name |-> "post-checkout", script |-> "valyrianctx resume --inject"] >>

\* the hooks valyrianctx manages
HookNames == {HOOKS[i].name : i \in 1..Len(HOOKS)}

\* HOOKS.find(hook => hook.name === h)
HookNamed(h) == CHOOSE k \in {HOOKS[i] : i \in 1..Len(HOOKS)} : k.name = h

\* no hook files in .git/hooks
NoHooks == [h \in HookNames |-> NoFile]

\* `\n${MARKER_START}\n${hook.script}\n${MARKER_END}\n`
HookBlock(hook) == <<NL, MARKER_START, NL, hook.script, NL, MARKER_END, NL>>

\* one turn of the installHooks loop without the test for the marker
InstallHookAgain(f, hook) ==
    File((IF f.exists THEN TrimEnd(f.text) \o <<NL>> ELSE <<Shebang, NL>>)
         \o HookBlock(hook))

\* one turn of the installHooks loop: the hook file afterwards
InstallHook(f, hook) ==
    IF f.exists /\ Includes(f.text, MARKER_START) THEN f
    ELSE File((IF f.exists THEN TrimEnd(f.text) \o <<NL>> ELSE <<Shebang, NL>>)
              \o HookBlock(hook))

\* content.replace(regex, "\n").trim()
CleanedHook(content) ==
    Trim(ReplaceAll(content, MARKER_START, MARKER_END, "opt", TRUE, <<NL>>))

\* a line that is not blank and does not start with #!
IsRemaining(line) == ~IsSpace(line) /\ line # Shebang

\* one turn of the removeHooks loop: the hook file afterwards
RemoveHook(f, hook) ==
    IF ~f.exists \/ ~Includes(f.text, MARKER_START) THEN f
    ELSE IF SelectSeq(CleanedHook(f.text), IsRemaining) = <<>> THEN NoFile
    ELSE File(CleanedHook(f.text) \o <<NL>>)

\* the names of the hooks a loop has changed, in order
RECURSIVE ChangedHooks(_, _, _)
ChangedHooks(before, after, i) ==
    IF i > Len(HOOKS) THEN <<>>
    ELSE (IF before[HOOKS[i].name] # after[HOOKS[i].name]
          THEN <<HOOKS[i].name>> ELSE <<>>)
         \o ChangedHooks(before, after, i + 1)

\* installHooks(hooksDir): every hook file afterwards
InstallHooksResult(hs) ==
    [h \in HookNames |-> InstallHook(hs[h], HookNamed(h))]

\* removeHooks(hooksDir): every hook file afterwards
RemoveHooksResult(hs) ==
    [h \in HookNames |-> RemoveHook(hs[h], HookNamed(h))]

\* ------------------------------------------------------- VS Code extension
\* the minutes an extension session is followed for
MaxMinutes == 24

\* IDLE_TIMEOUT_MS = 10 * 60 * 1000, in minutes; the timer ticks once a minute
IdleTimeoutMinutes == 10

\* recordActivity()
RecordActivity(e, now) ==
    [e EXCEPT !.lastActivityTime = now, !.idleSaveFired = FALSE]

\* checkIdleAndSave() without idleSaveFired = true
CheckIdleAndSaveUnflagged(e, now) ==
    IF e.lastActivityTime = 0 \/ e.idleSaveFired THEN e
    ELSE IF now - e.lastActivityTime < IdleTimeoutMinutes THEN e
    ELSE [e EXCEPT !.idleSaves = @ + 1,
                   !.idleSavesAfterExplicit = IF e.explicitSaved THEN @ + 1 ELSE @]

\* checkIdleAndSave() up to its await: the flag is set and the command
\* save --auto "Session idle in VS Code" is sent.  idleSaves counts the idle
\* saves sent since the last file save, idleSavesAfterExplicit those of them
\* sent after an explicit save.
CheckIdleAndSave(e, now) ==
    IF e.lastActivityTime = 0 \/ e.idleSaveFired THEN e
    ELSE IF now - e.lastActivityTime < IdleTimeoutMinutes THEN e
    ELSE [e EXCEPT !.idleSaveFired = TRUE,
                   !.idleSaves = @ + 1,
                   !.idleSavesAfterExplicit = IF e.explicitSaved THEN @ + 1 ELSE @]

\* ------------------------------------------------------------------ state
VARIABLES
    files,      \* rule file path -> file value
    mcpFiles,   \* tool configuration path -> configuration value
    gitignore,  \* the file value of .gitignore
    unwritable, \* the paths on which fs.writeFileSync fails (EACCES, ENOSPC)
    ret,        \* the last operation: its arguments and what it returned
    prev,       \* the file system as the last operation found it, the
                \* operation that had left it so, and the rule files as
                \* that earlier operation had found them
    orig,       \* the file system before the first operation
    sources,    \* extractor -> what that editor's storage holds
    extracted,  \* the last extractFromEditorSessions call and its outcome
    arg,        \* the argument a text-mining helper is called with
    out,        \* the helper called, how far it got and what it returned
    server,     \* the MCP server process: its module variables, the
                \* context store it reads and the tool calls it handles
    store,      \* .valyrianctx: whether it exists and the branch's entries
    clock,      \* Date.now(), in minutes
    saves,      \* the save commands running: position and local variables
    hooks,      \* .git/hooks: hook name -> file value
    ext         \* the VS Code extension: its module variables and the
                \* commands it has sent to the terminal

vars == <<files, mcpFiles, gitignore, unwritable, ret, prev, orig, sources, extracted,
         arg, out, server, store, clock, saves, hooks, ext>>

\* no MCP server process
NoServer == [running |-> FALSE]

\* no .valyrianctx directory
NoStore == [initialized |-> FALSE, entries |-> <<>>]

\* no save command running
NoSaves == <<>>

\* the extension is not activated
NoExtension == [active |-> FALSE]

NoArg == <<>>
NoOut == [fn |-> "none"]

NotExtracted == [called |-> FALSE, result |-> NoContext, invoked |-> <<>>, threw |-> FALSE]

Snapshot == [files |-> files, mcp |-> mcpFiles, gitignore |-> gitignore,
             op |-> ret.op, before |-> prev.files]

NoRet == [op |-> "none", ides |-> {}, includeMcp |-> FALSE, summary |-> <<>>,
          threw |-> FALSE, written |-> <<>>, removed |-> <<>>, count |-> 0]

\* ---------------------------------------------------------------- actions
\* The effect of a writeIDERules call whose result is r.  When a write
\* throws the promise rejects and the caller gets no written list.
ApplyWrite(r, ides, includeMcp) ==
    /\ files' = r.files
    /\ mcpFiles' = r.mcp
    /\ gitignore' = r.gitignore
    /\ ret' = [NoRet EXCEPT !.op = "write", !.ides = ides, !.includeMcp = includeMcp,
                            !.threw = r.threw,
                            !.written = IF r.threw THEN <<>> ELSE r.written]
    /\ prev' = Snapshot
    /\ UNCHANGED <<unwritable, orig, sources, extracted, arg, out, server,
                   store, clock, saves, hooks, ext>>

\* rules generate / init: writeIDERules(root, {ides, includeMcp})
WriteIDERules(ides, includeMcp) ==
    ApplyWrite(WriteIDERulesResult(files, mcpFiles, gitignore, ides, includeMcp, unwritable),
               ides, includeMcp)

ApplyRemove(r) ==
    /\ files' = r.files
    /\ mcpFiles' = r.mcp
    /\ ret' = [NoRet EXCEPT !.op = "remove", !.threw = r.threw,
                            !.removed = IF r.threw THEN <<>> ELSE r.removed]
    /\ prev' = Snapshot
    /\ UNCHANGED <<gitignore, unwritable, orig, sources, extracted, arg, out, server,
                   store, clock, saves, hooks, ext>>

\* rules remove: removeIDERules(root)
RemoveIDERules == ApplyRemove(RemoveIDERulesResult(files, mcpFiles, unwritable))

ApplyInject(r, contextMarkdown) ==
    /\ \A p \in RulePaths : Len(r.files[p].text) <= MaxFileLen
    /\ files' = r.files
    /\ ret' = [NoRet EXCEPT !.op = "inject", !.summary = contextMarkdown,
                            !.threw = r.threw,
                            !.count = IF r.threw THEN 0 ELSE r.count]
    /\ prev' = Snapshot
    /\ UNCHANGED <<mcpFiles, gitignore, unwritable, orig, sources, extracted, arg, out, server,
                   store, clock, saves, hooks, ext>>

\* save, resume --inject with entries: injectContextIntoRules(root, prompt)
InjectContextIntoRules(contextMarkdown) ==
    ApplyInject(InjectContextIntoRulesResult(files, contextMarkdown, unwritable),
                contextMarkdown)

ApplyClear(r) ==
    /\ files' = r.files
    /\ ret' = [NoRet EXCEPT !.op = "clear", !.threw = r.threw,
                            !.count = IF r.threw THEN 0 ELSE r.count]
    /\ prev' = Snapshot
    /\ UNCHANGED <<mcpFiles, gitignore, unwritable, orig, sources, extracted, arg, out, server,
                   store, clock, saves, hooks, ext>>

\* resume --inject without entries: clearContextFromRules(root)
ClearContextFromRules == ApplyClear(ClearContextFromRulesResult(files, unwritable))

ApplyExtract(r) ==
    /\ extracted' = [called |-> TRUE, result |-> r.result, invoked |-> r.invoked,
                     threw |-> r.threw]
    /\ UNCHANGED <<files, mcpFiles, gitignore, unwritable, ret, prev, orig, sources, arg, out, server,
                   store, clock, saves, hooks, ext>>

\* save without a message: extractFromEditorSessions(repoPath)
ExtractFromEditorSessions == ApplyExtract(ExtractFromEditorSessionsResult(sources))

\* a text-mining helper applied to arg
ApplyHelper(fn, value) ==
    /\ out' = [fn |-> fn, value |-> value]
    /\ UNCHANGED <<files, mcpFiles, gitignore, unwritable, ret, prev, orig,
                   sources, extracted, arg, server,
                   store, clock, saves, hooks, ext>>

\* extractDecisions(messages)
ExtractDecisionsCall == ApplyHelper("extractDecisions", ExtractDecisions(arg))

\* parseClaudeSession(latestSession)
ParseClaudeSessionCall == ApplyHelper("parseClaudeSession", ParseClaudeSession(arg))

\* the currentState parseClaudeSession, extractFromAntigravity and
\* extractFromOpenCode put in their result
ClaudeSessionStateCall == ApplyHelper("parseClaudeSession.currentState", ClaudeSessionStateLen(arg))
AntigravityStateCall == ApplyHelper("extractFromAntigravity.currentState", AntigravityStateLen(arg))
OpenCodeStateCall == ApplyHelper("extractFromOpenCode.currentState", OpenCodeStateLen(arg))

\* the lists extractFromAntigravity and parseClaudeSession put in their result
AntigravityListsCall == ApplyHelper("extractFromAntigravity.lists", AntigravityLists(arg))
ClaudeSessionListsCall == ApplyHelper("parseClaudeSession.lists", ClaudeSessionLists(arg))

\* readLastLines(filePath, maxLines) is called: the stream is open and
\* nothing is read
StartRead ==
    /\ out.fn = "none"
    /\ out' = [fn |-> "readLastLines", pos |-> 0, buffer |-> <<>>, peak |-> 0,
               done |-> FALSE, value |-> <<>>]
    /\ UNCHANGED <<files, mcpFiles, gitignore, unwritable, ret, prev, orig,
                   sources, extracted, arg, server,
                   store, clock, saves, hooks, ext>>

\* one turn of for await (const line of rl); peak is the most lines the
\* buffer has held, counted after the push and before the splice
ReadLine ==
    /\ out.fn = "readLastLines" /\ ~out.done /\ out.pos < arg.n
    /\ out' = [out EXCEPT !.pos = @ + 1,
                          !.buffer = PushLine(@, out.pos + 1, arg.maxLines),
                          !.peak = IF Len(out.buffer) + 1 > @
                                   THEN Len(out.buffer) + 1 ELSE @]
    /\ UNCHANGED <<files, mcpFiles, gitignore, unwritable, ret, prev, orig,
                   sources, extracted, arg, server,
                   store, clock, saves, hooks, ext>>

\* the stream has ended: return buffer.slice(-maxLines)
ReturnLines ==
    /\ out.fn = "readLastLines" /\ ~out.done /\ out.pos = arg.n
    /\ out' = [out EXCEPT !.done = TRUE, !.value = LastLines(out.buffer, arg.maxLines)]
    /\ UNCHANGED <<files, mcpFiles, gitignore, unwritable, ret, prev, orig,
                   sources, extracted, arg, server,
                   store, clock, saves, hooks, ext>>

\* rules list: listIDERules(root).  Kept with the statuses: the operation
\* that came before, its targets, and the rule files before and after it.
ListIDERules ==
    /\ out' = [fn |-> "listIDERules",
               value |-> [statuses |-> ListIDERulesResult(files, mcpFiles),
                          op |-> ret.op, ides |-> ret.ides, threw |-> ret.threw,
                          before |-> prev.files, files |-> files]]
    /\ UNCHANGED <<files, mcpFiles, gitignore, unwritable, ret, prev, orig,
                   sources, extracted, arg, server,
                   store, clock, saves, hooks, ext>>

\* A tool call reaches its handler.  Calls are numbered in the order their
\* handlers start.  The handler runs up to its first await in one turn:
\* valyrianctx_resume sets the flag itself, the other two enter
\* getAutoResumePrefix(false); only resume and save call recordToolCall.
StartCall(c, tool) ==
    /\ server.running
    /\ server.calls[c].pc = "idle"
    /\ \A b \in CallIds : b < c => server.calls[b].pc # "idle"
    /\ LET r == IF tool = "valyrianctx_resume"
                THEN [sessionResumed |-> TRUE, loads |-> FALSE]
                ELSE GetAutoResumePrefix(server.sessionResumed, FALSE)
       IN server' = [server EXCEPT
              !.sessionResumed = r.sessionResumed,
              !.toolCallCount = IF tool = "valyrianctx_log" THEN @ ELSE @ + 1,
              !.explicitSaveMade = @ \/ tool = "valyrianctx_save",
              !.calls[c] = [NoCall EXCEPT !.tool = tool,
                                          !.pc = IF r.loads THEN "isInitialized"
                                                 ELSE "handler"]]
    /\ UNCHANGED <<files, mcpFiles, gitignore, unwritable, ret, prev, orig,
                   sources, extracted, arg, out,
                   store, clock, saves, hooks, ext>>

\* getAutoResumePrefix resumes after await isInitialized(): an empty
\* prefix when the repository has no store or the check threw
CheckInitialized(c, threw) ==
    /\ server.running
    /\ server.calls[c].pc = "isInitialized"
    /\ server' = [server EXCEPT
           !.calls[c].pc = IF threw \/ server.store = "uninitialized"
                           THEN "handler" ELSE "loadBranchContext"]
    /\ UNCHANGED <<files, mcpFiles, gitignore, unwritable, ret, prev, orig,
                   sources, extracted, arg, out,
                   store, clock, saves, hooks, ext>>

\* getAutoResumePrefix resumes after await loadBranchContext(branch)
LoadContext(c, threw) ==
    /\ server.running
    /\ server.calls[c].pc = "loadBranchContext"
    /\ server' = [server EXCEPT
           !.calls[c].pc = "handler",
           !.calls[c].prefix = LoadedPrefix(server.store, threw)]
    /\ UNCHANGED <<files, mcpFiles, gitignore, unwritable, ret, prev, orig,
                   sources, extracted, arg, out,
                   store, clock, saves, hooks, ext>>

\* The rest of the handler, up to its response.  valyrianctx_save saves an
\* entry and injects the prompt into the rule files; a handler that throws
\* answers with an error and no text.
Respond(c, failed) ==
    /\ server.running
    /\ server.calls[c].pc = "handler"
    /\ LET entrySaved == /\ server.calls[c].tool = "valyrianctx_save"
                         /\ server.store # "uninitialized"
                         /\ ~failed
       IN /\ server' = [server EXCEPT
                 !.store = IF entrySaved THEN "entries" ELSE @,
                 !.finished = Append(@, c),
                 !.calls[c].pc = "done",
                 !.calls[c].response =
                     [sent |-> TRUE, error |-> failed,
                      prefix |-> IF failed \/ server.calls[c].tool = "valyrianctx_resume"
                                 THEN "" ELSE server.calls[c].prefix]]
          /\ files' = IF entrySaved
                      THEN InjectContextIntoRulesResult(files, <<"x">>, unwritable).files
                      ELSE files
    /\ UNCHANGED <<mcpFiles, gitignore, unwritable, ret, prev, orig,
                   sources, extracted, arg, out,
                   store, clock, saves, hooks, ext>>

\* A minute passes.
Tick ==
    /\ clock < MaxClock
    /\ clock' = clock + 1
    /\ UNCHANGED <<files, mcpFiles, gitignore, unwritable, ret, prev, orig,
                   sources, extracted, arg, out, server, store, saves, hooks, ext>>

\* valyrianctx save [message] [options] is started; commands are numbered in
\* the order they start.  Up to the branch on options.auto: without a store
\* the command prints and returns, a failing git call is caught and printed;
\* without --auto the entry is built here.
SaveStart(p, message, options, gitFails) ==
    /\ saves[p].pc = "idle"
    /\ \A q \in SaveIds : q < p => saves[q].pc # "idle"
    /\ saves' = [saves EXCEPT ![p] =
          [NoSave EXCEPT
             !.message = message,
             !.options = options,
             !.pc = IF ~store.initialized \/ gitFails THEN "done"
                    ELSE IF options.auto THEN "guard" ELSE "saveContext",
             !.outcome = IF ~store.initialized THEN "not initialized"
                         ELSE IF gitFails THEN "error" ELSE "",
             !.entry = IF store.initialized /\ ~gitFails /\ ~options.auto
                       THEN EntryOf(p, clock, ManualFields(message, options))
                       ELSE NoEntry]]
    /\ UNCHANGED <<files, mcpFiles, gitignore, unwritable, ret, prev, orig,
                   sources, extracted, arg, out, server, store, clock, hooks, ext>>

\* save --auto resumes after await loadBranchContext(branch): the guard
SaveGuard(p) ==
    /\ saves[p].pc = "guard"
    /\ saves' = [saves EXCEPT
          ![p].pc = IF RecentRichSave(LoadBranchContext(store), clock)
                    THEN "done" ELSE "extract",
          ![p].outcome = IF RecentRichSave(LoadBranchContext(store), clock)
                         THEN "skipped" ELSE ""]
    /\ UNCHANGED <<files, mcpFiles, gitignore, unwritable, ret, prev, orig,
                   sources, extracted, arg, out, server, store, clock, hooks, ext>>

\* save --auto resumes after await extractFromEditorSessions(cwd) and
\* builds the entry
SaveExtract(p) ==
    /\ saves[p].pc = "extract"
    /\ saves' = [saves EXCEPT
          ![p].pc = "saveContext",
          ![p].scanned = TRUE,
          ![p].extracted = ExtractFromEditorSessionsResult(sources).result,
          ![p].entry = EntryOf(p, clock,
                         AutoFields(saves[p].message,
                                    ExtractFromEditorSessionsResult(sources).result))]
    /\ UNCHANGED <<files, mcpFiles, gitignore, unwritable, ret, prev, orig,
                   sources, extracted, arg, out, server, store, clock, hooks, ext>>

\* await saveContext(entry)
SaveStore(p) ==
    /\ saves[p].pc = "saveContext"
    /\ store' = SaveContext(store, saves[p].entry)
    /\ saves' = [saves EXCEPT ![p].pc = "loadBranchContext", ![p].outcome = "saved"]
    /\ UNCHANGED <<files, mcpFiles, gitignore, unwritable, ret, prev, orig,
                   sources, extracted, arg, out, server, clock, hooks, ext>>

\* await loadBranchContext(branch); generatePrompt(entries)
SaveReload(p) ==
    /\ saves[p].pc = "loadBranchContext"
    /\ saves' = [saves EXCEPT ![p].pc = "inject", ![p].i = 1,
                              ![p].prompt = GeneratePrompt(LoadBranchContext(store))]
    /\ UNCHANGED <<files, mcpFiles, gitignore, unwritable, ret, prev, orig,
                   sources, extracted, arg, out, server, store, clock, hooks, ext>>

\* injectContextIntoRules, one turn of its loop up to readFileSync: a shared
\* or missing rule file is passed over, an existing local one is read
SaveInjectRead(p) ==
    /\ saves[p].pc = "inject"
    /\ saves' = [saves EXCEPT ![p] =
          IF saves[p].i > Len(AllRules) THEN [@ EXCEPT !.pc = "done"]
          ELSE IF ~AllRules[saves[p].i].gitignore
                  \/ ~files[AllRules[saves[p].i].filePath].exists
          THEN [@ EXCEPT !.i = @ + 1]
          ELSE [@ EXCEPT !.pc = "writeFileSync",
                         !.content = files[AllRules[saves[p].i].filePath].text]]
    /\ UNCHANGED <<files, mcpFiles, gitignore, unwritable, ret, prev, orig,
                   sources, extracted, arg, out, server, store, clock, hooks, ext>>

\* injectContextIntoRules, writeFileSync of the file read; a failing write
\* ends the injection, which is best-effort
SaveInjectWrite(p) ==
    /\ saves[p].pc = "writeFileSync"
    /\ IF AllRules[saves[p].i].filePath \in unwritable
       THEN /\ saves' = [saves EXCEPT ![p].pc = "done"]
            /\ files' = files
       ELSE /\ saves' = [saves EXCEPT ![p].pc = "inject", ![p].i = @ + 1,
                                      ![p].injected = @ + 1]
            /\ files' = [files EXCEPT ![AllRules[saves[p].i].filePath] =
                            File(InjectedText(saves[p].content,
                                              ContextSection(saves[p].prompt)))]
    /\ UNCHANGED <<mcpFiles, gitignore, unwritable, ret, prev, orig,
                   sources, extracted, arg, out, server, store, clock, hooks, ext>>

\* valyrianctx hook (install): installHooks; written lists the hooks
\* reported as installed
InstallHooks ==
    /\ hooks' = InstallHooksResult(hooks)
    /\ ret' = [NoRet EXCEPT !.op = "hook install",
                            !.written = ChangedHooks(hooks, InstallHooksResult(hooks), 1)]
    /\ UNCHANGED <<files, mcpFiles, gitignore, unwritable, prev, orig,
                   sources, extracted, arg, out, server, store, clock, saves, ext>>

\* valyrianctx hook remove: removeHooks; removed lists the hooks counted
RemoveHooks ==
    /\ hooks' = RemoveHooksResult(hooks)
    /\ ret' = [NoRet EXCEPT !.op = "hook remove",
                            !.removed = ChangedHooks(hooks, RemoveHooksResult(hooks), 1)]
    /\ UNCHANGED <<files, mcpFiles, gitignore, unwritable, prev, orig,
                   sources, extracted, arg, out, server, store, clock, saves, ext>>

\* onDidSaveTextDocument: a file is saved
FileSaved ==
    /\ ext.active
    /\ ext' = [RecordActivity(ext, clock) EXCEPT !.idleSaves = 0,
                                                 !.explicitSaved = FALSE,
                                                 !.idleSavesAfterExplicit = 0]
    /\ UNCHANGED <<files, mcpFiles, gitignore, unwritable, ret, prev, orig,
                   sources, extracted, arg, out, server, store, clock, saves, hooks>>

\* a minute has passed and the interval timer calls checkIdleAndSave
IdleTimerTick ==
    /\ ext.active
    /\ clock < MaxMinutes
    /\ clock' = clock + 1
    /\ ext' = CheckIdleAndSave(ext, clock + 1)
    /\ UNCHANGED <<files, mcpFiles, gitignore, unwritable, ret, prev, orig,
                   sources, extracted, arg, out, server, store, saves, hooks>>

\* valyrianctx.save: the input box is answered and the save command is sent
ExplicitSaveStart ==
    /\ ext.active
    /\ ~ext.saving
    /\ ext' = [ext EXCEPT !.saving = TRUE]
    /\ UNCHANGED <<files, mcpFiles, gitignore, unwritable, ret, prev, orig,
                   sources, extracted, arg, out, server, store, clock, saves, hooks>>

\* the save command has ended: after a successful one recordActivity() and
\* idleSaveFired = true, after a failed one an error message
ExplicitSaveEnd(ok) ==
    /\ ext.active
    /\ ext.saving
    /\ ext' = IF ok
              THEN [RecordActivity(ext, clock) EXCEPT !.idleSaveFired = TRUE,
                                                     !.explicitSaved = TRUE,
                                                     !.saving = FALSE]
              ELSE [ext EXCEPT !.saving = FALSE]
    /\ UNCHANGED <<files, mcpFiles, gitignore, unwritable, ret, prev, orig,
                   sources, extracted, arg, out, server, store, clock, saves, hooks>>

\* ----------------------------------------------------------------- inputs
UserTokens == {"a", SP, NL}

\* the token sequences over toks of length at most n
RECURSIVE SeqsUpTo(_, _)
SeqsUpTo(toks, n) ==
    IF n = 0 THEN {<<>>}
    ELSE LET shorter == SeqsUpTo(toks, n - 1)
         IN shorter \cup {Append(u, t) : u \in shorter, t \in toks}

\* what a shared rule file may hold before the first operation: nothing,
\* user text, or user text around one span whose inside was edited by hand
InitialShared ==
    {NoFile}
    \cup {File(u) : u \in SeqsUpTo(UserTokens, MaxUser)}
    \cup {File(u1 \o <<IStart>> \o m \o <<IEnd>> \o u2) :
            u1 \in SeqsUpTo(UserTokens, MaxAround),
            m \in SeqsUpTo(UserTokens, MaxAround),
            u2 \in SeqsUpTo(UserTokens, MaxAround)}

SharedIds == {AllRules[i].id : i \in {k \in RuleIdx : AllRules[k].appendToExisting}}

\* the summaries generatePrompt may render: plain text, and text that holds
\* a replacement pattern
Summaries == {<<"x">>, <<"$&">>}

AllAbsent == [p \in RulePaths |-> NoFile]
NoConfigs == [p \in McpPaths |-> NoConfig]

ExtractorNames == {Extractors[i] : i \in 1..Len(Extractors)}
NoSources == [e \in ExtractorNames |-> "absent"]

InitFiles(fs, mcp, gi, bad) ==
    /\ files = fs
    /\ mcpFiles = mcp
    /\ gitignore = gi
    /\ unwritable = bad
    /\ ret = NoRet
    /\ prev = [files |-> fs, mcp |-> mcp, gitignore |-> gi, op |-> "none", before |-> fs]
    /\ orig = [files |-> fs, mcp |-> mcp, gitignore |-> gi]

\* no editor has stored anything and no extraction has run
InitWith(fs, mcp, gi, bad) ==
    /\ InitFiles(fs, mcp, gi, bad)
    /\ sources = NoSources
    /\ extracted = NotExtracted
    /\ arg = NoArg
    /\ out = NoOut
    /\ store = NoStore
    /\ clock = 0
    /\ saves = NoSaves
    /\ hooks = NoHooks
    /\ ext = NoExtension
    /\ server = NoServer

\* ---- shared rule files: one of them starts with arbitrary content
InitShared ==
    \E p \in SharedPaths, f \in InitialShared :
        InitWith([AllAbsent EXCEPT ![p] = f], NoConfigs, NoFile, {})

\* rules generate --no-mcp for the shared targets, or for Claude Code alone
GenerateShared == \E ides \in {SharedIds, {"claude-code"}} : WriteIDERules(ides, FALSE)

NextShared == GenerateShared \/ RemoveIDERules

SpecShared == InitShared /\ [][NextShared]_vars

\* ---- all rule operations on a repository whose shared files hold user text
Init ==
    \E sh \in {NoFile, File(<<"a", NL>>)} :
        InitWith([p \in RulePaths |-> IF p \in SharedPaths THEN sh ELSE NoFile],
                 NoConfigs, NoFile, {})

Generate ==
    \E ides \in {RuleIds, {"claude-code", "cursor"}} : WriteIDERules(ides, FALSE)

Inject == \E c \in Summaries : InjectContextIntoRules(c)

Next == Generate \/ RemoveIDERules \/ Inject \/ ClearContextFromRules

Spec == Init /\ [][Next]_vars

\* ------------------------------------------------------- shared rule files
HasNoMarker(text) == ~Includes(text, IStart) /\ ~Includes(text, IEnd)

\* the report writeIDERules returned for path p is action
Reported(p, action) ==
    \E k \in 1..Len(ret.written) : ret.written[k] = [path |-> p, action |-> action]

\* C1: a shared rule file (CLAUDE.md, GEMINI.md, AGENTS.md) that starts absent
\* or as user text with at most one instruction span never holds more than
\* one instruction start marker nor more than one instruction end marker,
\* whatever writeIDERules and removeIDERules calls follow.
C1_AtMostOneInstructionSpan ==
    \A p \in SharedPaths :
        files[p].exists =>
            /\ Count(files[p].text, IStart) <= 1
            /\ Count(files[p].text, IEnd) <= 1

\* a second writeIDERules on a file that held user text from the start: the
\* span the first one appended has been replaced, not doubled
C1_Witness ==
    \E p \in SharedPaths :
        /\ ret.op = "write" /\ Reported(p, "updated")
        /\ prev.op = "write" /\ Includes(prev.files[p].text, IStart)
        /\ orig.files[p].exists /\ HasNoMarker(orig.files[p].text)
        /\ Includes(orig.files[p].text, "a")
        /\ Count(files[p].text, IStart) = 1 /\ Count(files[p].text, IEnd) = 1

\* removeIDERules directly after a writeIDERules that added the section to
\* the existing marker-free user content U of shared file p
RoundTripOf(p) ==
    /\ ret.op = "remove" /\ ~ret.threw
    /\ prev.op = "write"
    /\ prev.before[p].exists /\ HasNoMarker(prev.before[p].text)
    /\ Includes(prev.files[p].text, IStart)

\* C2 as stated: writeIDERules then removeIDERules leaves every marker-free
\* user content U in place, the file existing and equal to U.
C2_RoundTripAnyContent ==
    \A p \in SharedPaths : RoundTripOf(p) => files[p] = prev.before[p]

\* C2 amended: the round trip leaves trim(U) followed by one newline, and no
\* file at all when U is empty or blank; so it restores U exactly when U is
\* not blank, starts with a non-blank character and ends with a single
\* newline right after a non-blank character.
C2_RoundTripTrimmed ==
    \A p \in SharedPaths :
        RoundTripOf(p) =>
            LET U == prev.before[p].text
            IN /\ files[p] = IF Trim(U) = <<>> THEN NoFile ELSE File(Trim(U) \o <<NL>>)
               /\ (U = Trim(U) \o <<NL>> /\ Trim(U) # <<>>) => files[p] = File(U)

\* a round trip that restored a two-character user file
C2_Witness ==
    \E p \in SharedPaths :
        /\ RoundTripOf(p)
        /\ prev.before[p] = File(<<"a", NL>>)
        /\ files[p] = File(<<"a", NL>>)

\* C3: writeIDERules on an existing shared rule file changes nothing outside
\* the instruction span.  Without a start marker the old text stays as an
\* exact prefix and the section follows after a separator of one newline (two
\* when the text did not end with one) and is reported "appended"; with a
\* span only the text from the start marker through the first end marker
\* after it is replaced by the section, reported "updated", whatever stands
\* between the markers.
C3_WriteTouchesOnlySpan ==
    \A i \in RuleIdx :
        LET rule == AllRules[i]
            p == rule.filePath
            old == prev.files[p].text
            new == files[p].text
            section == <<IStart, NL, rule.body, NL, IEnd>>
            s == FirstIdx(old, IStart, 1)
            e == IF s = 0 THEN 0 ELSE FirstIdx(old, IEnd, s + 1)
        IN (ret.op = "write" /\ ~ret.threw /\ rule.id \in ret.ides
            /\ rule.appendToExisting /\ prev.files[p].exists) =>
             /\ files[p].exists
             /\ s = 0 =>
                  /\ Reported(p, "appended")
                  /\ SubSeq(new, 1, Len(old)) = old
                  /\ SubSeq(new, Len(old) + 1, Len(new))
                       \in {<<NL>> \o section \o <<NL>>, <<NL, NL>> \o section \o <<NL>>}
                  /\ (SubSeq(new, Len(old) + 1, Len(new)) = <<NL>> \o section \o <<NL>>)
                       <=> EndsWithNL(old)
             /\ (s > 0 /\ e > 0) =>
                  /\ Reported(p, "updated")
                  /\ new = SubSeq(old, 1, s - 1) \o section \o SubSeq(old, e + 1, Len(old))

\* an update of a span whose inside had been edited by hand, with user text
\* on both sides of it
C3_Witness ==
    \E p \in SharedPaths :
        /\ ret.op = "write" /\ Reported(p, "updated")
        /\ prev.files[p] = File(<<"a", IStart, "a", IEnd, "a">>)
        /\ files[p].text[1] = "a" /\ files[p].text[Len(files[p].text)] = "a"

\* ------------------------------------------------- tool configuration files
\* the functions from a subset of keys to the values given for them
PartialMaps(keys, values) ==
    UNION {[d -> values] : d \in SUBSET keys}

\* what a tool configuration may hold before the first operation: no file,
\* a file that does not parse, or an object with or without the unrelated key
\* someOtherSetting and with mcpServers absent, null or an object holding a
\* foreign server, an entry of this tool (hand-written or generated), both or
\* none
InitialConfigs ==
    {NoConfig, Malformed}
    \cup {Config(o, sv, NoEntries) :
            o \in PartialMaps({"someOtherSetting"}, {"true"}), sv \in {"absent", "null"}}
    \cup {Config(o, "object", e) :
            o \in PartialMaps({"someOtherSetting"}, {"true"}),
            e \in {f \in PartialMaps({"other-server", OwnServer},
                                     {"other-command", "custom", "gen:claude-code"}) :
                     \A n \in DOMAIN f : (f[n] = "other-command") <=> (n = "other-server")}}

\* one of the two tool configurations pre-exists, the other is absent
InitMcp ==
    \E q \in McpPaths, c \in InitialConfigs :
        InitWith(AllAbsent, [p \in McpPaths |-> IF p = q THEN c ELSE NoConfig],
                 NoFile, {})

\* rules generate for Claude Code, for Cursor or for every target, with or
\* without --no-mcp
GenerateMcp ==
    \E ides \in {{"claude-code"}, {"cursor"}, RuleIds}, includeMcp \in BOOLEAN :
        WriteIDERules(ides, includeMcp)

NextMcp == GenerateMcp \/ RemoveIDERules

SpecMcp == InitMcp /\ [][NextMcp]_vars

HasOwnEntry(cfg) ==
    cfg.state = "object" /\ cfg.sv = "object" /\ OwnServer \in DOMAIN cfg.entries

WasRemoved(p) == \E k \in 1..Len(ret.removed) : ret.removed[k] = p

\* C4: whatever writeIDERules (with or without MCP) and removeIDERules calls
\* follow, a configuration that parsed to an object at the start still holds
\* each of its top-level keys other than mcpServers and each of its
\* mcpServers entries other than valyrianctx, with the original value.
C4_ForeignConfigPreserved ==
    \A p \in McpPaths :
        orig.mcp[p].state = "object" =>
            /\ \A k \in DOMAIN orig.mcp[p].other :
                 /\ mcpFiles[p].state = "object"
                 /\ k \in DOMAIN mcpFiles[p].other
                 /\ mcpFiles[p].other[k] = orig.mcp[p].other[k]
            /\ \A n \in DOMAIN orig.mcp[p].entries \ {OwnServer} :
                 /\ mcpFiles[p].state = "object"
                 /\ mcpFiles[p].sv = "object"
                 /\ n \in DOMAIN mcpFiles[p].entries
                 /\ mcpFiles[p].entries[n] = orig.mcp[p].entries[n]

\* a configuration with a foreign server and an unrelated key, after an
\* add/update step followed by a removal step
C4_Witness ==
    \E p \in McpPaths :
        /\ ret.op = "remove" /\ WasRemoved(p)
        /\ prev.op = "write" /\ HasOwnEntry(prev.mcp[p])
        /\ orig.mcp[p] = Config([k \in {"someOtherSetting"} |-> "true"], "object",
                                [n \in {"other-server"} |-> "other-command"])
        /\ mcpFiles[p] = orig.mcp[p]

\* C5: the MCP removal of removeIDERules deletes only the valyrianctx entry of
\* mcpServers; it deletes mcpServers exactly when that leaves it empty and the
\* file exactly when no top-level key remains, and rewrites the reduced
\* document otherwise; a configuration without a valyrianctx entry is left
\* untouched and not reported as removed.
C5_RemovalDeletesOnlyOwnEntry ==
    \A p \in McpPaths :
        LET old == prev.mcp[p]
            new == mcpFiles[p]
            rest == DOMAIN old.entries \ {OwnServer}
        IN ret.op = "remove" =>
             /\ HasOwnEntry(old) =>
                  /\ WasRemoved(p)
                  /\ (new.state = "absent") <=> (rest = {} /\ DOMAIN old.other = {})
                  /\ new.state \in {"absent", "object"}
                  /\ new.state = "object" =>
                       /\ new.other = old.other
                       /\ (new.sv = "absent") <=> (rest = {})
                       /\ new.sv \in {"absent", "object"}
                       /\ DOMAIN new.entries = rest
                       /\ \A n \in rest : new.entries[n] = old.entries[n]
             /\ ~HasOwnEntry(old) => (new = old /\ ~WasRemoved(p))

\* a removal that took the last server away, and mcpServers with it, from a
\* configuration that keeps an unrelated key and so is rewritten, not deleted
C5_Witness ==
    \E p \in McpPaths :
        /\ ret.op = "remove" /\ WasRemoved(p)
        /\ prev.mcp[p] = Config([k \in {"someOtherSetting"} |-> "true"], "object",
                                [n \in {OwnServer} |-> "custom"])
        /\ mcpFiles[p] = Config([k \in {"someOtherSetting"} |-> "true"], "absent", NoEntries)

\* --------------------------------------------------------- session sources
\* an empty repository and any combination of editor storage
InitExtract ==
    /\ InitFiles(AllAbsent, NoConfigs, NoFile, {})
    /\ sources \in [ExtractorNames -> SourceStates]
    /\ extracted = NotExtracted
    /\ arg = NoArg
    /\ out = NoOut
    /\ store = NoStore
    /\ clock = 0
    /\ saves = NoSaves
    /\ hooks = NoHooks
    /\ ext = NoExtension
    /\ server = NoServer

NextExtract == ExtractFromEditorSessions

SpecExtract == InitExtract /\ [][NextExtract]_vars

\* the positions of the extractors whose source yields a non-empty task
Yielding == {i \in 1..Len(Extractors) : sources[Extractors[i]] = "task"}

FirstYielding == CHOOSE i \in Yielding : \A j \in Yielding : i <= j

\* C6: extractFromEditorSessions invokes the extractors in the order Claude
\* Code, Antigravity, Cursor, OpenCode, Trae, Warp, returns the unchanged
\* result of the first one whose result has a non-empty task without invoking
\* a later one or taking data from another source, and returns null exactly
\* when no extractor yields a non-empty task, as when no source root exists.
C6_FirstSourceWins ==
    extracted.called =>
        /\ Extractors = <<"extractFromClaudeCode", "extractFromAntigravity",
                          "extractFromCursor", "extractFromOpenCode",
                          "extractFromTrae", "extractFromWarp">>
        /\ (extracted.result = NoContext) <=> (Yielding = {})
        /\ Yielding = {} => extracted.invoked = Extractors
        /\ Yielding # {} =>
             /\ extracted.invoked = SubSeq(Extractors, 1, FirstYielding)
             /\ extracted.result =
                  RunExtractor(Extractors[FirstYielding], "task").value
             /\ extracted.result.source = Extractors[FirstYielding]
             /\ extracted.result.decisions = {<<"decision", Extractors[FirstYielding]>>}
        /\ (\A e \in ExtractorNames : sources[e] = "absent") => extracted.result = NoContext

\* Claude Code's session has an empty task, Cursor's and Warp's have one:
\* Cursor's result is returned and OpenCode, Trae and Warp are not invoked
C6_Witness ==
    /\ extracted.called
    /\ sources["extractFromClaudeCode"] = "noTask"
    /\ sources["extractFromAntigravity"] = "absent"
    /\ sources["extractFromCursor"] = "task"
    /\ sources["extractFromWarp"] = "task"
    /\ extracted.result.source = "extractFromCursor"
    /\ Len(extracted.invoked) = 3

\* C7: no exception of an extractor leaves extractFromEditorSessions; a
\* throwing extractor counts as having found nothing and the extractor after
\* it is still invoked.
C7_ExtractorExceptionsContained ==
    extracted.called =>
        /\ ~extracted.threw
        /\ \A k \in 1..Len(extracted.invoked) :
             sources[extracted.invoked[k]] = "broken" =>
                IF k < Len(Extractors)
                THEN /\ Len(extracted.invoked) > k
                     /\ extracted.invoked[k + 1] = Extractors[k + 1]
                ELSE extracted.result = NoContext
        /\ \A k \in 1..Len(Extractors) :
             (sources[Extractors[k]] = "broken"
                /\ \A j \in 1..(k - 1) : sources[Extractors[j]] # "task")
             => Len(extracted.invoked) >= k

\* Claude Code's storage cannot be parsed and Antigravity's has a task
C7_Witness ==
    /\ extracted.called
    /\ sources["extractFromClaudeCode"] = "broken"
    /\ sources["extractFromAntigravity"] = "task"
    /\ extracted.result.source = "extractFromAntigravity"
    /\ ~extracted.threw

\* ------------------------------------------------------- context injection
ExistingLocal(fs) == {p \in LocalPaths : fs[p].exists}

\* C8: injectContextIntoRules writes only the rule files that are IDE-local
\* (gitignore = true) and already exist: it creates no file, leaves CLAUDE.md,
\* GEMINI.md and AGENTS.md as they are, puts the context section in every
\* existing IDE-local file, and returns the number of those files.
C8_InjectWritesExistingLocalOnly ==
    (ret.op = "inject" /\ ~ret.threw) =>
        /\ \A p \in SharedPaths : files[p] = prev.files[p]
        /\ \A p \in RulePaths : ~prev.files[p].exists => files[p] = NoFile
        /\ \A p \in ExistingLocal(prev.files) :
             /\ files[p].exists
             /\ Includes(files[p].text, CONTEXT_MARKERS.start)
             /\ Includes(files[p].text, CONTEXT_MARKERS.end)
        /\ ret.count = Cardinality(ExistingLocal(prev.files))

\* an inject that found CLAUDE.md written, GEMINI.md holding user text, the
\* Cursor file present and the Trae file missing
C8_Witness ==
    /\ ret.op = "inject" /\ ~ret.threw
    /\ ret.count = 1
    /\ Includes(prev.files["CLAUDE.md"].text, IStart)
    /\ files["CLAUDE.md"] = prev.files["CLAUDE.md"]
    /\ files["GEMINI.md"] = File(<<"a", NL>>)
    /\ prev.files[".cursor/rules/valyrianctx.mdc"].exists
    /\ ~prev.files[".trae/rules/valyrianctx.md"].exists
    /\ ~files[".trae/rules/valyrianctx.md"].exists

\* C9: after clearContextFromRules (resume --inject on a branch without
\* entries) an existing IDE-local rule file holds no context marker and, having
\* been produced by writeIDERules and injected since, is exactly what
\* writeIDERules wrote: the generated content and one newline.
C9_ClearRestoresGenerated ==
    (ret.op = "clear" /\ ~ret.threw) =>
        \A p \in ExistingLocal(files) :
            /\ ~Includes(files[p].text, CONTEXT_MARKERS.start)
            /\ files[p].text = GenerateContent(RuleOfPath(p)) \o <<NL>>

\* ----------------------------------------------------------- write failures
\* an empty repository in which writing one of the rule files fails
InitFail ==
    \E p \in RulePaths : InitWith(AllAbsent, NoConfigs, NoFile, {p})

\* rules generate for every target or for the dedicated-file targets
GenerateFail ==
    \E ides \in {RuleIds, RuleIds \ SharedIds}, includeMcp \in BOOLEAN :
        WriteIDERules(ides, includeMcp)

NextFail == GenerateFail \/ RemoveIDERules

SpecFail == InitFail /\ [][NextFail]_vars

\* the rule file at p holds the content generated for its target
Synchronized(p) ==
    /\ files[p].exists
    /\ Includes(files[p].text, RuleOfPath(p).body)

\* C10: when writing one target's rule file fails during writeIDERules, the
\* caller sees the failure and the rule files of the other requested targets
\* are written all the same.
C10_FailureDoesNotAbortOthers ==
    (ret.op = "write" /\ ret.threw) =>
        \A i \in 1..Len(AllRules) :
            (AllRules[i].id \in ret.ides /\ AllRules[i].filePath \notin unwritable)
                => Synchronized(AllRules[i].filePath)

\* ------------------------------------------------------------- .gitignore
\* what .gitignore may hold before the first run: nothing, user lines with or
\* without a final newline, a header left by an earlier version, or a
\* pattern that holds one of the rule paths
InitialGitignore ==
    {NoFile, File(<<>>), File(<<"node_modules">>), File(<<"node_modules", NL>>),
     File(<<HeaderProbe, NL>>), File(<<"!.warp/valyrianctx.md", NL>>)}

InitIgnore ==
    \E gi \in InitialGitignore : InitWith(AllAbsent, NoConfigs, gi, {})

\* rules generate for overlapping sets of dedicated-file targets
GenerateIgnore ==
    \E ides \in {{"cursor", "trae"}, {"trae", "warp"},
                 {"cursor", "antigravity-dir", "warp"}, RuleIds},
       includeMcp \in BOOLEAN :
        WriteIDERules(ides, includeMcp)

NextIgnore == GenerateIgnore \/ RemoveIDERules

SpecIgnore == InitIgnore /\ [][NextIgnore]_vars

\* the number of lines of content that hold str
LinesHolding(content, str) ==
    Cardinality({i \in 1..Len(content) :
                   content[i] = str \/ <<str, content[i]>> \in ProperSubstrings})

\* C11: however many writeIDERules runs with overlapping IDE-local path sets
\* have called updateGitignore, .gitignore holds no rule path as a line more
\* than once and the header "# ValyrianCtx IDE rules" at most once.
C11_GitignoreNoDuplicates ==
    /\ \A p \in LocalPaths \cup McpPaths : Count(gitignore.text, p) <= 1
    /\ LinesHolding(gitignore.text, HeaderProbe) <= 1

\* a third run in a row, after which all four paths are listed under the header
C11_Witness ==
    /\ ret.op = "write" /\ prev.op = "write"
    /\ prev.gitignore.exists /\ prev.gitignore # orig.gitignore
    /\ gitignore # prev.gitignore
    /\ Count(gitignore.text, GitignoreHeader) = 1
    /\ \A p \in LocalPaths : Count(gitignore.text, p) = 1

\* -------------------------------------------------------------- idempotence
\* what a hand-edited shared file may hold between its user text: a span, a
\* start marker without end, two spans, a span in a span, an end marker
\* before a start marker
MarkerShapes ==
    {<<IStart, "a", IEnd>>, <<IStart, "a">>,
     <<IStart, IEnd, NL, IStart, "a", IEnd>>,
     <<IStart, IStart, IEnd, IEnd>>, <<IEnd, IStart>>}

InitialAnyShared ==
    {NoFile}
    \cup {File(u) : u \in SeqsUpTo(UserTokens, MaxAround)}
    \cup {File(u1 \o m \o u2) :
            u1 \in SeqsUpTo(UserTokens, MaxAround), m \in MarkerShapes,
            u2 \in {<<>>, <<NL>>}}

\* CLAUDE.md in any state, the Cursor rule file and .gitignore present or
\* not, Claude Code's settings absent, unparsable or holding foreign content
InitIdem ==
    \E f \in InitialAnyShared, gi \in {NoFile, File(<<"node_modules">>)},
       c \in {NoConfig, Malformed,
              Config([k \in {"someOtherSetting"} |-> "true"], "object",
                     [n \in {"other-server"} |-> "other-command"])} :
        InitWith([AllAbsent EXCEPT !["CLAUDE.md"] = f,
                                   ![".cursor/rules/valyrianctx.mdc"] =
                                        IF gi.exists THEN File(<<"a">>) ELSE NoFile],
                 [NoConfigs EXCEPT ![".claude/settings.local.json"] = c],
                 gi, {})

GenerateIdem ==
    \E ides \in {RuleIds, {"claude-code", "cursor"}}, includeMcp \in BOOLEAN :
        WriteIDERules(ides, includeMcp)

NextIdem == GenerateIdem \/ RemoveIDERules

SpecIdem == InitIdem /\ [][NextIdem]_vars

\* C12: a writeIDERules run that directly follows a run with the same
\* options changes no rule file, no tool configuration and not .gitignore:
\* twice in a row leaves every file byte-identical to once.
C12_WriteTwiceSameAsOnce ==
    [][(/\ ret.op = "write" /\ ret'.op = "write"
        /\ ret'.ides = ret.ides /\ ret'.includeMcp = ret.includeMcp)
       => (files' = files /\ mcpFiles' = mcpFiles /\ gitignore' = gitignore)]_vars

\* two runs for every target with MCP in a row, on a CLAUDE.md that held a
\* span in a span and settings that did not parse
C12_Witness ==
    /\ ret.op = "write" /\ prev.op = "write"
    /\ ret.ides = RuleIds /\ ret.includeMcp
    /\ orig.files["CLAUDE.md"] = File(<<IStart, IStart, IEnd, IEnd>>)
    /\ orig.mcp[".claude/settings.local.json"] = Malformed
    /\ prev.before = orig.files
    /\ files = prev.files /\ mcpFiles = prev.mcp /\ gitignore = prev.gitignore
    /\ files # orig.files

\* ------------------------------------------------- unparsable configuration
\* the targets writeIDERules configured MCP for in its last run
McpTargets ==
    {i \in RuleIdx : /\ AllRules[i].mcpConfigPath # ""
                     /\ AllRules[i].id \in ret.ides
                     /\ ret.includeMcp}

\* C13: a tool configuration that does not parse is overwritten by
\* writeMcpConfig with a document holding nothing but mcpServers with this
\* tool's entry, the write is reported as "updated", and writeIDERules does
\* not fail over it.
C13_MalformedConfigOverwritten ==
    ret.op = "write" =>
        \A i \in McpTargets :
            prev.mcp[AllRules[i].mcpConfigPath] = Malformed =>
                /\ ~ret.threw
                /\ mcpFiles[AllRules[i].mcpConfigPath] =
                     Config(NoEntries, "object",
                            [n \in {OwnServer} |-> AllRules[i].mcpEntry])
                /\ Reported(AllRules[i].mcpConfigPath, "updated")

\* rules generate --ide cursor over a .cursor/mcp.json that does not parse
C13_Witness ==
    /\ ret.op = "write" /\ ret.ides = {"cursor"} /\ ret.includeMcp
    /\ prev.mcp[".cursor/mcp.json"] = Malformed
    /\ mcpFiles[".cursor/mcp.json"].state = "object"
    /\ Reported(".cursor/mcp.json", "updated")

\* ---------------------------------------------------------------- decisions
\* an empty repository, no editor storage, a helper about to be called
InitIdle ==
    /\ InitFiles(AllAbsent, NoConfigs, NoFile, {})
    /\ sources = NoSources
    /\ extracted = NotExtracted
    /\ out = NoOut
    /\ store = NoStore
    /\ clock = 0
    /\ saves = NoSaves
    /\ hooks = NoHooks
    /\ ext = NoExtension
    /\ server = NoServer

\* one message of up to MaxMessageLen pieces, or two short messages
DecisionInputs ==
    {<<m>> : m \in SeqsUpTo({"D", "s", ".", SP}, MaxMessageLen)}
    \cup {<<m1, m2>> : m1 \in SeqsUpTo({"D", ".", SP}, 2),
                       m2 \in SeqsUpTo({"D", ".", SP}, 2)}

InitDecisions == InitIdle /\ arg \in DecisionInputs

NextDecisions == ExtractDecisionsCall

SpecDecisions == InitDecisions /\ [][NextDecisions]_vars

\* the sentence "We decided to use Postgres because we need transactions."
\* once, twice in one message, or once in each of two messages
SentenceRepeated ==
    { << <<"D", ".">> >>, << <<"D", ".", SP, "D", ".">> >>,
      << <<"D", ".">>, <<"D", ".">> >> }

\* the entries of a decisions list that are the sentence, with or without
\* its final period
SentenceEntries(decisions) ==
    {k \in 1..Len(decisions) : decisions[k] \in {<<"D">>, <<"D", ".">>}}

\* C14: extractDecisions returns no string twice, and mining "We decided to
\* use Postgres because we need transactions." returns that sentence exactly
\* once, also when the source text holds it twice.
C14_DecisionsDeduplicated ==
    out.fn = "extractDecisions" =>
        /\ \A j, k \in 1..Len(out.value) : out.value[j] = out.value[k] => j = k
        /\ arg \in SentenceRepeated => Cardinality(SentenceEntries(out.value)) = 1

\* --------------------------------------------------------------- transcript
\* the lines a transcript is made of: user messages of one line, of two
\* lines with blanks around the first, of two characters, of one 300
\* character line; an assistant message; a line that is not JSON
TranscriptLines ==
    {Line("user", <<"R">>), Line("user", <<"B">>), Line("user", <<"k">>),
     Line("user", <<SP, "R", SP, NL, "B">>), Line("user", <<"W", NL, "B">>),
     Line("assistant", <<"A">>), Line("malformed", <<>>)}

RECURSIVE Transcripts(_)
Transcripts(n) ==
    IF n = 0 THEN {<<>>}
    ELSE Transcripts(n - 1)
         \cup {Append(t, l) : t \in {u \in Transcripts(n - 1) : Len(u) = n - 1},
                              l \in TranscriptLines}

InitSession == InitIdle /\ arg \in Transcripts(MaxTranscript)

NextSession == ParseClaudeSessionCall

SpecSession == InitSession /\ [][NextSession]_vars

\* what the result must hold when the user-role messages that count are users
TaskAndRequestsFrom(users) ==
    IF Len(users) = 0 THEN ~out.value.found
    ELSE /\ out.value.found
         /\ out.value.task =
              IF TextLen(Trim(FirstLine(users[1]))) < 300
              THEN [text |-> Trim(FirstLine(users[1])), cut |-> 0]
              ELSE [text |-> users[1], cut |-> 200]
         /\ \A k \in 2..3 :
              k <= Len(users) =>
                /\ Len(out.value.approaches) >= k - 1
                /\ out.value.approaches[k - 1].prefix = "User also asked: "
                /\ out.value.approaches[k - 1].body.text = Trim(FirstLine(users[k]))
         /\ \A j \in 1..Len(out.value.approaches) :
              (out.value.approaches[j].prefix = "") => j >= Len(FirstThree(users))

\* C15 as stated: the task is the first line of the first user-role message
\* (its first 200 characters when that line is too long), the second and
\* third user-role messages give the "User also asked: " entries in order
\* before the mined approaches, and without user-role message there is no
\* result.
C15_TaskFromFirstUserMessage ==
    out.fn = "parseClaudeSession" => TaskAndRequestsFrom(UserTextsUnfiltered(arg))

\* C15, amended: the same of the user-role messages whose text has at least
\* five characters, all others being skipped; first lines are trimmed.
C15_TaskFromFirstCountedUserMessage ==
    out.fn = "parseClaudeSession" =>
        TaskAndRequestsFrom(
            [k \in 1..Len(SelectSeq(arg, LAMBDA l : l.type = "user" /\ TextLen(l.text) >= 5)) |->
                SelectSeq(arg, LAMBDA l : l.type = "user" /\ TextLen(l.text) >= 5)[k].text])

\* "ok", then a request of two lines, an assistant message that tried
\* something, then "Also check billing"
C15_Witness ==
    /\ out.fn = "parseClaudeSession"
    /\ arg = <<Line("user", <<"k">>), Line("user", <<SP, "R", SP, NL, "B">>),
               Line("assistant", <<"A">>), Line("user", <<"B">>)>>
    /\ out.value.task = [text |-> <<"R">>, cut |-> 0]
    /\ Len(out.value.approaches) = 2
    /\ out.value.approaches[1].body.text = <<"B">>
    /\ out.value.approaches[2] = [prefix |-> "", body |-> [text |-> <<"A:tried">>, cut |-> 0]]

\* ------------------------------------------------------------ state length
\* session artifacts by the lengths that matter: the state phrase and the
\* last long line of the last assistant message, the walkthrough's title and
\* first section, the state field of context.json
StateInputs ==
    [matchLen : {0, 40, StateLimit + 100}, lineLen : {0, 21, StateLimit + 100},
     hasWalkthrough : BOOLEAN, titleLen : {0, 30}, hasSection : BOOLEAN,
     hasChanges : BOOLEAN, detailLen : {0, 50, StateLimit + 100},
     ctxStateLen : {0, 100, StateLimit + 100}]

InitState == InitIdle /\ arg \in StateInputs

NextState == ClaudeSessionStateCall \/ AntigravityStateCall \/ OpenCodeStateCall

SpecState == InitState /\ [][NextState]_vars

\* C16: the currentState of the result of any extractor has at most 300
\* characters, the truncation length of extractState.
C16_CurrentStateBounded ==
    out.fn \in {"parseClaudeSession.currentState", "extractFromAntigravity.currentState",
                "extractFromOpenCode.currentState"}
        => out.value <= StateLimit

\* ---------------------------------------------------------------- the lists
\* a task.md of checklist lines and a plan of one-sentence bullets
ListInputs ==
    [task : SeqsUpTo({"todo:a", "todo:b", "done:a"}, MaxTaskLines),
     plan : SeqsUpTo({<<"D">>, <<"s">>}, MaxBullets)]

InitLists == InitIdle /\ arg \in ListInputs

NextLists == AntigravityListsCall \/ ClaudeSessionListsCall

SpecLists == InitLists /\ [][NextLists]_vars

NoRepeats(list) == \A j, k \in 1..Len(list) : list[j] = list[k] => j = k

\* C17: in the result of every extractor neither decisions nor nextSteps
\* holds a string twice.
C17_ListsWithoutRepeats ==
    out.fn \in {"extractFromAntigravity.lists", "parseClaudeSession.lists"} =>
        /\ NoRepeats(out.value.decisions)
        /\ NoRepeats(out.value.nextSteps)

\* --------------------------------------------------------------- tail window
InitTail ==
    /\ InitIdle
    /\ arg \in [n : 0..MaxFileLines, maxLines : 1..MaxWindow]

NextTail == StartRead \/ ReadLine \/ ReturnLines

SpecTail == InitTail /\ [][NextTail]_vars

Smaller(a, b) == IF a < b THEN a ELSE b

\* C18: readLastLines returns the last min(n, maxLines) lines of a file of n
\* lines, in file order, and while it reads its buffer never holds more than
\* 2 * maxLines + 1 lines.
C18_TailWindow ==
    out.fn = "readLastLines" =>
        /\ Len(out.buffer) <= 2 * arg.maxLines + 1
        /\ out.peak <= 2 * arg.maxLines + 1
        /\ out.done =>
             /\ Len(out.value) = Smaller(arg.n, arg.maxLines)
             /\ \A k \in 1..Len(out.value) :
                  out.value[k] = arg.n - Len(out.value) + k

\* a file of more than four windows read to its end with maxLines = 2
C18_Witness ==
    /\ out.fn = "readLastLines" /\ out.done
    /\ arg.maxLines = 2 /\ arg.n > 4 * arg.maxLines
    /\ out.value = <<arg.n - 1, arg.n>>
    /\ out.peak = 2 * arg.maxLines + 1

\* -------------------------------------------------------------- rules list
\* CLAUDE.md absent or holding user text, the Cursor rule file absent or
\* left by an earlier run
InitStatus ==
    \E sh \in {NoFile, File(<<"a", NL>>)}, ded \in {NoFile, File(<<"G:cursor", NL>>)} :
        /\ InitFiles([AllAbsent EXCEPT !["CLAUDE.md"] = sh,
                                       ![".cursor/rules/valyrianctx.mdc"] = ded],
                     NoConfigs, NoFile, {})
        /\ sources = NoSources
        /\ extracted = NotExtracted
        /\ arg = NoArg
        /\ out = NoOut
        /\ store = NoStore
        /\ clock = 0
        /\ saves = NoSaves
        /\ hooks = NoHooks
        /\ ext = NoExtension
        /\ server = NoServer

\* rules list reads and writes no file: a run is followed up to its first list
GenerateStatus ==
    /\ out = NoOut
    /\ \E ides \in {{"claude-code"}, {"claude-code", "cursor"}, {"trae"}, RuleIds},
          includeMcp \in BOOLEAN :
           WriteIDERules(ides, includeMcp)

RemoveStatus == out = NoOut /\ RemoveIDERules

NextStatus == GenerateStatus \/ RemoveStatus \/ ListIDERules

SpecStatus == InitStatus /\ [][NextStatus]_vars

\* every status is what the files say: a dedicated-file target exists when
\* its file does, a shared target when its file does and holds the marker
StatusesMatchFiles(v) ==
    \A i \in RuleIdx :
        v.statuses[i].exists <=>
            /\ v.files[AllRules[i].filePath].exists
            /\ AllRules[i].appendToExisting =>
                 Includes(v.files[AllRules[i].filePath].text, IStart)

NoRuleFileHoldsMarker(fs) ==
    \A p \in RulePaths : ~Includes(fs[p].text, IStart) /\ ~Includes(fs[p].text, IEnd)

\* after writeIDERules for S exactly the targets in S exist; after
\* removeIDERules none does
StatusesFollowLastRun(v) ==
    /\ (v.op = "write" /\ ~v.threw) =>
          \A i \in RuleIdx : v.statuses[i].exists <=> AllRules[i].id \in v.ides
    /\ (v.op = "remove" /\ ~v.threw) =>
          \A i \in RuleIdx : ~v.statuses[i].exists

\* after removeIDERules no target exists, whatever the files were before
NoneAfterRemove(v) ==
    (v.op = "remove" /\ ~v.threw) => \A i \in RuleIdx : ~v.statuses[i].exists

\* C19 as stated: listIDERules reports exists by the file, and the marker for
\* shared targets; from rule files without marker, after writeIDERules for S
\* exactly the targets in S report exists, after removeIDERules none.
C19_StatusAfterRunFromNoMarker ==
    out.fn = "listIDERules" =>
        /\ StatusesMatchFiles(out.value)
        /\ NoRuleFileHoldsMarker(out.value.before) => StatusesFollowLastRun(out.value)

\* C19, amended: the same from rule files of which the shared ones hold no
\* marker and the dedicated ones do not exist.
C19_StatusAfterRunFromNoRules ==
    out.fn = "listIDERules" =>
        /\ StatusesMatchFiles(out.value)
        /\ (/\ NoRuleFileHoldsMarker(out.value.before)
            /\ \A p \in LocalPaths : ~out.value.before[p].exists)
           => StatusesFollowLastRun(out.value)
        /\ NoneAfterRemove(out.value)

\* rules list after rules generate --ide claude-code,cursor in a repository
\* whose CLAUDE.md held user text
C19_Witness ==
    /\ out.fn = "listIDERules"
    /\ out.value.op = "write" /\ out.value.ides = {"claude-code", "cursor"}
    /\ out.value.before["CLAUDE.md"] = File(<<"a", NL>>)
    /\ ~out.value.before[".cursor/rules/valyrianctx.mdc"].exists
    /\ out.value.statuses[1].exists /\ out.value.statuses[2].exists
    /\ ~out.value.statuses[3].exists
    /\ out.value.files = files

\* -------------------------------------------------------------- MCP server
\* A server process just started (sessionResumed = false, toolCallCount = 0)
\* in a repository that has no context store, an empty one or one with
\* entries, and whose CLAUDE.md holds the generated rules or is absent.
InitServer ==
    /\ \E fs \in {AllAbsent,
                  WriteIDERulesResult(AllAbsent, NoConfigs, NoFile,
                                      {"claude-code"}, FALSE, {}).files} :
           InitFiles(fs, NoConfigs, NoFile, {})
    /\ sources = NoSources
    /\ extracted = NotExtracted
    /\ arg = NoArg
    /\ out = NoOut
    /\ store = NoStore
    /\ clock = 0
    /\ saves = NoSaves
    /\ hooks = NoHooks
    /\ ext = NoExtension
    /\ \E st \in {"uninitialized", "empty", "entries"} :
           server = [running |-> TRUE, sessionResumed |-> FALSE,
                     toolCallCount |-> 0, explicitSaveMade |-> FALSE,
                     store |-> st, finished |-> <<>>,
                     calls |-> [c \in CallIds |-> NoCall]]

NextServer ==
    \/ \E c \in CallIds, tool \in Tools : StartCall(c, tool)
    \/ \E c \in CallIds, threw \in BOOLEAN : CheckInitialized(c, threw)
    \/ \E c \in CallIds, threw \in BOOLEAN : LoadContext(c, threw)
    \/ \E c \in CallIds, failed \in BOOLEAN : Respond(c, failed)

SpecServer == InitServer /\ [][NextServer]_vars

\* the calls for which getAutoResumePrefix returned the context
Prefixed == {c \in CallIds : server.calls[c].prefix # ""}

\* C20: in one server process at most one tool call gets the auto-resume
\* context, and that call is the first save or log call started; it is not a
\* valyrianctx_resume call and no valyrianctx_resume call started before it;
\* a response carries the context only if its call got it.
C20_AutoResumeAtMostOnce ==
    /\ Cardinality(Prefixed) <= 1
    /\ \A c \in CallIds :
          server.calls[c].response.prefix # "" => c \in Prefixed
    /\ \A c \in Prefixed :
          /\ server.calls[c].tool \in {"valyrianctx_save", "valyrianctx_log"}
          /\ \A b \in CallIds : b < c => server.calls[b].tool = "none"

\* a save call gets the context although a log call and a resume call, both
\* started while it was loading, answered before it
C20_Witness ==
    /\ server.finished = <<2, 3, 1>>
    /\ server.calls[1].tool = "valyrianctx_save"
    /\ server.calls[2].tool = "valyrianctx_log"
    /\ server.calls[3].tool = "valyrianctx_resume"
    /\ server.calls[1].response.prefix = AutoResumeContext
    /\ server.calls[2].response = [sent |-> TRUE, prefix |-> "", error |-> FALSE]
    /\ server.calls[3].response = [sent |-> TRUE, prefix |-> "", error |-> FALSE]

\* ------------------------------------------------------------------- save
\* what a save command is given: the hook's save --auto, save --auto with a
\* message, a structured save, one whose --approaches is blank, a plain
\* message and no arguments at all
SaveInputs ==
    {<<"", [NoOptions EXCEPT !.auto = TRUE]>>,
     <<"m", [NoOptions EXCEPT !.auto = TRUE]>>,
     <<"m", [NoOptions EXCEPT !.approaches = <<"a1">>]>>,
     <<"m", [NoOptions EXCEPT !.approaches = <<" ">>]>>,
     <<"m", NoOptions>>,
     <<"", NoOptions>>}

\* the editors' storage: none, a Claude Code session, an unreadable one, one
\* without task next to a Cursor session
SessionSources ==
    {NoSources,
     [NoSources EXCEPT !["extractFromClaudeCode"] = "task"],
     [NoSources EXCEPT !["extractFromClaudeCode"] = "broken"],
     [NoSources EXCEPT !["extractFromClaudeCode"] = "noTask",
                       !["extractFromCursor"] = "task"]}

\* the Cursor rule file as rules generate wrote it
CursorRules == [AllAbsent EXCEPT ![".cursor/rules/valyrianctx.mdc"] =
                                    File(<<"G:cursor", NL>>)]

\* an initialized repository with the Cursor rules, or a repository without
\* a store; no entry is saved yet and no save command runs
InitSave ==
    /\ InitFiles(CursorRules, NoConfigs, NoFile, {})
    /\ sources \in SessionSources
    /\ extracted = NotExtracted
    /\ arg = NoArg
    /\ out = NoOut
    /\ server = NoServer
    /\ store \in {NoStore, [NoStore EXCEPT !.initialized = TRUE]}
    /\ clock = 0
    /\ saves = [p \in SaveIds |-> NoSave]
    /\ hooks = NoHooks
    /\ ext = NoExtension

\* no other save command is running
Alone(p) == \A q \in SaveIds : q # p => saves[q].pc \in {"idle", "done"}

\* save commands run one after the other, minutes pass between them
NextSave ==
    \/ Tick
    \/ \E p \in SaveIds, in \in SaveInputs, gitFails \in BOOLEAN :
          Alone(p) /\ SaveStart(p, in[1], in[2], gitFails)
    \/ \E p \in SaveIds : SaveGuard(p)
    \/ \E p \in SaveIds : SaveExtract(p)
    \/ \E p \in SaveIds : SaveStore(p)
    \/ \E p \in SaveIds : SaveReload(p)
    \/ \E p \in SaveIds : SaveInjectRead(p)
    \/ \E p \in SaveIds : SaveInjectWrite(p)

SpecSave == InitSave /\ [][NextSave]_vars

\* the entries a save command has stored
StoredBy(p) == {k \in 1..Len(store.entries) : store.entries[k].id = p}

\* C21: a save --auto whose extraction found no session is not a failure: it
\* goes on to store one entry, and the task of that entry is the message
\* given, or the placeholder when none was given.
C21_AutoSaveFallsBackToMessage ==
    \A p \in SaveIds :
        (saves[p].options.auto /\ saves[p].scanned /\ ~saves[p].extracted.found) =>
            /\ saves[p].outcome # "error"
            /\ saves[p].entry.task = IF saves[p].message # "" THEN saves[p].message
                                     ELSE AutoPlaceholder
            /\ saves[p].pc # "saveContext" =>
                 /\ Cardinality(StoredBy(p)) = 1
                 /\ \A k \in StoredBy(p) : store.entries[k] = saves[p].entry

\* the hook's save --auto with an unreadable Claude Code storage has stored
\* the placeholder entry and synced it to the Cursor rule file
C21_Witness ==
    /\ sources["extractFromClaudeCode"] = "broken"
    /\ saves[1].options.auto /\ saves[1].message = "" /\ saves[1].pc = "done"
    /\ saves[1].outcome = "saved" /\ saves[1].injected = 1
    /\ Len(store.entries) = 1
    /\ store.entries[1].task = AutoPlaceholder
    /\ Includes(files[".cursor/rules/valyrianctx.mdc"].text, AutoPlaceholder)

\* ------------------------------------------------------------ context span
\* text holds section as one piece
HoldsSection(text, section) ==
    \E k \in 1..(Len(text) - Len(section) + 1) :
        SubSeq(text, k, k + Len(section) - 1) = section

\* C22: whatever injectContextIntoRules and clearContextFromRules calls were
\* made, an existing IDE-local rule file holds at most one context start
\* marker and at most one context end marker; right after an inject it holds
\* exactly one span, the section of the summary just given; and an inject of
\* the summary injected just before changes no file.
C22_OneContextSpan ==
    [][/\ \A p \in ExistingLocal(files') :
            /\ Count(files'[p].text, CONTEXT_MARKERS.start) <= 1
            /\ Count(files'[p].text, CONTEXT_MARKERS.end) <= 1
       /\ (ret'.op = "inject" /\ ~ret'.threw) =>
            \A p \in ExistingLocal(files') :
                /\ Count(files'[p].text, CONTEXT_MARKERS.start) = 1
                /\ HoldsSection(files'[p].text, ContextSection(ret'.summary))
       /\ (ret.op = "inject" /\ ~ret.threw /\ ret'.op = "inject" /\ ~ret'.threw
             /\ ret'.summary = ret.summary) => files' = files
      ]_vars

\* -------------------------------------------------------- concurrent saves
\* the Cursor and Trae rule files as rules generate wrote them
CursorAndTraeRules ==
    [CursorRules EXCEPT ![".trae/rules/valyrianctx.md"] = File(<<"G:trae", NL>>)]

\* an initialized repository without entries, no editor session
InitSaves ==
    /\ InitFiles(CursorAndTraeRules, NoConfigs, NoFile, {})
    /\ sources = NoSources
    /\ extracted = NotExtracted
    /\ arg = NoArg
    /\ out = NoOut
    /\ server = NoServer
    /\ store = [NoStore EXCEPT !.initialized = TRUE]
    /\ clock = 0
    /\ saves = [p \in SaveIds |-> NoSave]
    /\ hooks = NoHooks
    /\ ext = NoExtension

\* save "m" and save "n", a structured save, or the hook's save --auto
ConcurrentInputs(p) ==
    {<<IF p = 1 THEN "m" ELSE "n", NoOptions>>,
     <<IF p = 1 THEN "m" ELSE "n", [NoOptions EXCEPT !.approaches = <<"a1">>]>>,
     <<"", [NoOptions EXCEPT !.auto = TRUE]>>}

\* Save commands are processes of their own: each file read and write of
\* one may fall between any two of the other.
NextSaves ==
    \/ Tick
    \/ \E p \in SaveIds : \E in \in ConcurrentInputs(p) :
          SaveStart(p, in[1], in[2], FALSE)
    \/ \E p \in SaveIds : SaveGuard(p)
    \/ \E p \in SaveIds : SaveExtract(p)
    \/ \E p \in SaveIds : SaveStore(p)
    \/ \E p \in SaveIds : SaveReload(p)
    \/ \E p \in SaveIds : SaveInjectRead(p)
    \/ \E p \in SaveIds : SaveInjectWrite(p)

SpecSaves == InitSaves /\ [][NextSaves]_vars

AllSaved == \A p \in SaveIds : saves[p].pc = "done" /\ saves[p].outcome = "saved"

\* C23: when two save commands that ran concurrently have both finished,
\* every existing IDE-local rule file holds exactly one context span, and it
\* is the section of the summary of all the entries stored.
C23_ConcurrentSavesLeaveLatestSummary ==
    AllSaved =>
        \A p \in ExistingLocal(files) :
            /\ Count(files[p].text, CONTEXT_MARKERS.start) = 1
            /\ Count(files[p].text, CONTEXT_MARKERS.end) = 1
            /\ HoldsSection(files[p].text,
                            ContextSection(GeneratePrompt(LoadBranchContext(store))))

\* ---------------------------------------------------------- auto-save guard
\* C24: a save --auto that finds the branch's latest entry with an approach
\* or a decision and less than five minutes old returns at once; a skipped
\* save --auto stores no entry and injects nothing; and when a save --auto
\* stores its entry, the entry it replaces as the latest is not such a one.
C24_AutoSaveKeepsRecentRichSave ==
    [][\A p \in SaveIds :
         /\ (saves[p].pc = "guard" /\ saves'[p].pc # "guard"
               /\ RecentRichSave(LoadBranchContext(store), clock))
            => (saves'[p].pc = "done" /\ saves'[p].outcome = "skipped")
         /\ saves'[p].outcome = "skipped" =>
               /\ saves'[p].pc = "done"
               /\ saves'[p].injected = 0
               /\ \A k \in 1..Len(store'.entries) : store'.entries[k].id # p
         /\ (saves[p].pc = "saveContext" /\ saves'[p].pc # "saveContext"
               /\ saves[p].options.auto)
            => ~RecentRichSave(LoadBranchContext(store), clock)
      ]_vars

\* ---------------------------------------------------------------- git hooks
\* what a hook file may hold before the first command: nothing, or a script
\* of the user's without the marker
InitialHooks ==
    {NoFile} \cup {File(t) : t \in SeqsUpTo({Shebang, "u", NL}, MaxHookLen)}

InitHooks ==
    /\ InitFiles(AllAbsent, NoConfigs, NoFile, {})
    /\ sources = NoSources
    /\ extracted = NotExtracted
    /\ arg = NoArg
    /\ out = NoOut
    /\ server = NoServer
    /\ store = NoStore
    /\ clock = 0
    /\ saves = NoSaves
    /\ hooks \in [HookNames -> InitialHooks]
    /\ ext = NoExtension

NextHooks == InstallHooks \/ RemoveHooks

SpecHooks == InitHooks /\ [][NextHooks]_vars

\* C25: whatever hook install and hook remove commands were run, post-commit
\* and post-checkout each hold at most one start marker and at most one end
\* marker, and a hook install leaves a hook file that holds the start marker
\* as it is.
C25_OneHookBlock ==
    [][/\ \A h \in HookNames :
            /\ Count(hooks'[h].text, MARKER_START) <= 1
            /\ Count(hooks'[h].text, MARKER_END) <= 1
       /\ ret'.op = "hook install" =>
            \A h \in HookNames :
                Includes(hooks[h].text, MARKER_START) => hooks'[h] = hooks[h]
      ]_vars

\* hook install was run on a repository whose post-commit hook held the
\* user's script and the block and whose post-checkout hook held the block:
\* nothing was installed
C25_Witness ==
    /\ ret.op = "hook install" /\ ret.written = <<>>
    /\ hooks["post-commit"].text =
          <<Shebang, NL, "u", NL>> \o HookBlock(HOOKS[1])
    /\ hooks["post-checkout"].text = <<Shebang, NL>> \o HookBlock(HOOKS[2])

\* ------------------------------------------------------- VS Code extension
\* activate() has run: recordActivity() and startIdleTimer()
InitExtension ==
    /\ InitFiles(AllAbsent, NoConfigs, NoFile, {})
    /\ sources = NoSources
    /\ extracted = NotExtracted
    /\ arg = NoArg
    /\ out = NoOut
    /\ server = NoServer
    /\ store = NoStore
    /\ clock = 1
    /\ saves = NoSaves
    /\ hooks = NoHooks
    /\ ext = [active |-> TRUE, lastActivityTime |-> 1, idleSaveFired |-> FALSE,
              saving |-> FALSE, idleSaves |-> 0, explicitSaved |-> FALSE,
              idleSavesAfterExplicit |-> 0]

NextExtension ==
    \/ FileSaved
    \/ IdleTimerTick
    \/ ExplicitSaveStart
    \/ \E ok \in BOOLEAN : ExplicitSaveEnd(ok)

SpecExtension == InitExtension /\ [][NextExtension]_vars

\* C26: since the last file save at most one idle auto-save was sent,
\* however many timer ticks there were, and none was sent after an explicit
\* save.
C26_OneIdleSavePerIdlePeriod ==
    ext.active =>
        /\ ext.idleSaves <= 1
        /\ ext.idleSavesAfterExplicit = 0

\* an idle save was sent ten minutes after the last file save, an explicit
\* save succeeded after it, and ten more minutes have passed without a
\* second idle save
C26_Witness ==
    /\ ext.active
    /\ ext.idleSaves = 1
    /\ ext.explicitSaved
    /\ ext.idleSaveFired
    /\ clock >= ext.lastActivityTime + IdleTimeoutMinutes
    /\ clock = MaxMinutes

\* ------------------------------------------------------------ foreign text
\* the user's lines above a span: none, one line, one line and a blank line
LinesBefore == {<<>>, <<"a", NL>>, <<"a", NL, NL>>}

\* the user's lines below a span, which ends its own line
LinesAfter == {<<>>, <<NL>>, <<NL, "b", NL>>, <<NL, NL, "b", NL>>}

\* CLAUDE.md with an instruction span and the Cursor rule file with a context
\* span, each between lines of foreign text
InitFrame ==
    \E b1 \in LinesBefore, a1 \in LinesAfter, b2 \in LinesBefore, a2 \in LinesAfter :
        /\ InitFiles([AllAbsent EXCEPT
                 !["CLAUDE.md"] =
                     File(b1 \o <<IStart, NL, "G:claude-code", NL, IEnd>> \o a1),
                 ![".cursor/rules/valyrianctx.mdc"] =
                     File(<<"G:cursor", NL>> \o b2 \o ContextSection(<<"x">>) \o a2)],
               NoConfigs, NoFile, {})
        /\ sources = NoSources
        /\ extracted = NotExtracted
        /\ arg = NoArg
        /\ out = NoOut
        /\ server = NoServer
        /\ store = NoStore
        /\ clock = 0
        /\ saves = NoSaves
        /\ hooks = NoHooks
        /\ ext = NoExtension

NextFrame == RemoveIDERules \/ ClearContextFromRules

SpecFrame == InitFrame /\ [][NextFrame]_vars

\* the lines of a text that are not blank, in order: text.split("\n") without
\* the lines that hold nothing but spaces
RECURSIVE NonBlankLines(_, _)
NonBlankLines(text, line) ==
    IF text = <<>> THEN (IF line = <<>> THEN <<>> ELSE <<line>>)
    ELSE IF Head(text) = NL
         THEN (IF line = <<>> THEN <<>> ELSE <<line>>) \o NonBlankLines(Tail(text), <<>>)
    ELSE IF Head(text) = SP /\ line = <<>> /\ (Len(text) = 1 \/ text[2] \in {NL, SP})
         THEN NonBlankLines(Tail(text), line)
    ELSE NonBlankLines(Tail(text), Append(line, Head(text)))

\* the non-blank lines above the start marker and below the end marker
ForeignLines(text, start, end) ==
    NonBlankLines(SubSeq(text, 1, FirstIdx(text, start, 1) - 1), <<>>)
    \o NonBlankLines(SubSeq(text, FirstIdx(text, end, 1) + 1, Len(text)), <<>>)

\* C27: after removeIDERules a shared rule file that held the instruction
\* span, and after clearContextFromRules an IDE-local rule file that held the
\* context span, holds exactly the non-blank lines it held above and below
\* the span, each as a line of its own and in the same order.
C27_ForeignLinesKept ==
    /\ (ret.op = "remove" /\ ~ret.threw) =>
          \A p \in SharedPaths :
              Includes(prev.files[p].text, IStart) =>
                  NonBlankLines(files[p].text, <<>>)
                      = ForeignLines(prev.files[p].text, IStart, IEnd)
    /\ (ret.op = "clear" /\ ~ret.threw) =>
          \A p \in LocalPaths :
              Includes(prev.files[p].text, CONTEXT_MARKERS.start) =>
                  NonBlankLines(files[p].text, <<>>)
                      = ForeignLines(prev.files[p].text, CONTEXT_MARKERS.start,
                                     CONTEXT_MARKERS.end)

\* --------------------------------------------------------- summary verbatim
\* C28: right after injectContextIntoRules(root, summary) every existing
\* IDE-local rule file holds, between its context markers, the section that
\* was built from the summary, token for token; this for a summary of plain
\* text and for one that holds '$', whether the file held a span before the
\* call (the span is replaced) or not (the span is appended).
C28_SummaryStoredVerbatim ==
    (ret.op = "inject" /\ ~ret.threw) =>
        \A p \in ExistingLocal(files) :
            LET text == files[p].text
                from == FirstIdx(text, CONTEXT_MARKERS.start, 1)
                to == FirstIdx(text, CONTEXT_MARKERS.end, 1)
            IN /\ from > 0
               /\ to > from
               /\ SubSeq(text, from, to) = ContextSection(ret.summary)

\* ------------------------------------------------------------ init command
\* "\n# ValyrianCtx - AI coding context\n.valyrianctx/\n"
InitGitignoreLines == <<NL, "# ValyrianCtx - AI coding context", NL, ".valyrianctx/", NL>>

\* .gitignore after the first init: appendFileSync unless the file includes
\* ".valyrianctx/"
GitignoreAfterInit(gi) ==
    IF IncludesText(gi.text, ".valyrianctx/") THEN gi
    ELSE File(gi.text \o InitGitignoreLines)

\* the lines of a hook file that hold the word valyrianctx: the block's, and
\* a command of the user's own
ValyrianctxLines ==
    {MARKER_START, MARKER_END, "valyrianctx status"}
    \cup {HOOKS[i].script : i \in 1..Len(HOOKS)}

\* fs.existsSync(p) && fs.readFileSync(p, "utf-8").includes("valyrianctx")
MentionsValyrianctx(f) ==
    f.exists /\ \E i \in 1..Len(f.text) : f.text[i] \in ValyrianctxLines

\* if (!hasPostCommit || !hasPostCheckout) await hookCommand("install")
HooksAfterInit(hs) ==
    IF \A h \in HookNames : MentionsValyrianctx(hs[h]) THEN hs
    ELSE InstallHooksResult(hs)

\* statuses.filter(s => !s.exists).length
MissingCount(statuses) == Cardinality({i \in DOMAIN statuses : ~statuses[i].exists})

\* initCommand from writeIDERules(root) on; r is what writeIDERules did
InitAfterWrite(r, hs) ==
    [initialized |-> TRUE, files |-> r.files, mcp |-> r.mcp, gitignore |-> r.gitignore,
     hooks |-> IF r.threw THEN hs ELSE HooksAfterInit(hs),
     threw |-> r.threw, written |-> IF r.threw THEN <<>> ELSE r.written,
     ides |-> IF r.threw THEN {} ELSE RuleIds]

\* initCommand from listIDERules(root) on; gi is .gitignore as the first part
\* left it
InitRules(alreadyInitialized, fs, mcp, gi, hs, bad) ==
    IF alreadyInitialized /\ MissingCount(ListIDERulesResult(fs, mcp)) = 0
    THEN [initialized |-> TRUE, files |-> fs, mcp |-> mcp, gitignore |-> gi,
          hooks |-> hs, threw |-> FALSE, written |-> <<>>, ides |-> {}]
    ELSE InitAfterWrite(WriteIDERulesResult(fs, mcp, gi, RuleIds, TRUE, bad), hs)

\* initCommand() as a whole.  An exception (getRepoRoot outside a repository,
\* a failed write) is caught and reported; what was written before it stays.
InitCommandResult(alreadyInitialized, fs, mcp, gi, hs, bad, gitFails) ==
    IF gitFails
    THEN [initialized |-> alreadyInitialized, files |-> fs, mcp |-> mcp, gitignore |-> gi,
          hooks |-> hs, threw |-> TRUE, written |-> <<>>, ides |-> {}]
    ELSE IF alreadyInitialized
    THEN InitRules(TRUE, fs, mcp, gi, hs, bad)
    ELSE IF GitignoreAfterInit(gi) # gi /\ ".gitignore" \in bad
    THEN [initialized |-> TRUE, files |-> fs, mcp |-> mcp, gitignore |-> gi,
          hooks |-> hs, threw |-> TRUE, written |-> <<>>, ides |-> {}]
    ELSE InitRules(FALSE, fs, mcp, GitignoreAfterInit(gi), hs, bad)

ApplyInit(r) ==
    /\ store' = [store EXCEPT !.initialized = r.initialized]
    /\ files' = r.files
    /\ mcpFiles' = r.mcp
    /\ gitignore' = r.gitignore
    /\ hooks' = r.hooks
    /\ ret' = [NoRet EXCEPT !.op = "init", !.threw = r.threw, !.written = r.written,
                            !.ides = r.ides, !.includeMcp = r.ides # {}]
    /\ prev' = Snapshot
    /\ UNCHANGED <<unwritable, orig, sources, extracted, arg, out, server,
                   clock, saves, ext>>

\* valyrianctx init
InitCommand ==
    \E gitFails \in BOOLEAN :
        ApplyInit(InitCommandResult(store.initialized, files, mcpFiles, gitignore,
                                    hooks, unwritable, gitFails))

\* what a hook file holds before the first init: nothing, a script of the
\* user's, or a script of the user's that calls valyrianctx
HooksBeforeInit ==
    {NoFile, File(<<Shebang, NL, "u", NL>>), File(<<Shebang, NL, "valyrianctx status", NL>>)}

InitInit ==
    /\ \E sh \in {NoFile, File(<<"a", NL>>)}, gi \in {NoFile, File(<<"node_modules", NL>>)} :
          InitFiles([p \in RulePaths |-> IF p \in SharedPaths THEN sh ELSE NoFile],
                    NoConfigs, gi, {})
    /\ sources = NoSources
    /\ extracted = NotExtracted
    /\ arg = NoArg
    /\ out = NoOut
    /\ server = NoServer
    /\ store = NoStore
    /\ clock = 0
    /\ saves = NoSaves
    /\ \E f \in HooksBeforeInit : hooks = [h \in HookNames |-> f]
    /\ ext = NoExtension

NextInit ==
    \/ InitCommand
    \/ Generate
    \/ RemoveIDERules
    \/ InjectContextIntoRules(<<"x">>)
    \/ RemoveHooks

SpecInit == InitInit /\ [][NextInit]_vars

\* C29: after a writeIDERules call that returned, made by rules generate or
\* by init, every dedicated rule file among the call's targets holds the
\* generated rule content followed by one newline and nothing else, whatever
\* it held before: a context section injected earlier is gone.
C29_DedicatedFileOverwritten ==
    (ret.op \in {"write", "init"} /\ ~ret.threw) =>
        \A i \in RuleIdx :
            (AllRules[i].id \in ret.ides /\ ~AllRules[i].appendToExisting) =>
                /\ files[AllRules[i].filePath]
                       = File(GenerateContent(AllRules[i]) \o <<NL>>)
                /\ ~Includes(files[AllRules[i].filePath].text, CONTEXT_MARKERS.start)

\* init regenerated the rules of a repository whose Cursor rule file held an
\* injected context section
C29_Witness ==
    /\ ret.op = "init"
    /\ ~ret.threw
    /\ "cursor" \in ret.ides
    /\ Includes(prev.files[".cursor/rules/valyrianctx.mdc"].text, CONTEXT_MARKERS.start)
    /\ ~Includes(files[".cursor/rules/valyrianctx.mdc"].text, CONTEXT_MARKERS.start)

\* C30: after every run of init that ended without an error, the first in a
\* repository as well as a later one, post-commit and post-checkout each
\* exist and hold the valyrianctx block with the hook's script.
C30_InitLeavesHooksInstalled ==
    (ret.op = "init" /\ ~ret.threw) =>
        \A h \in HookNames :
            /\ hooks[h].exists
            /\ HoldsSection(hooks[h].text, Tail(HookBlock(HookNamed(h))))
====
